---- MODULE Spec2Model ----
(***************************************************************************)
(* Model of the reputation-analyzer repository: the per-source score       *)
(* ledgers (CSV files) written by the site scrapers and by the dashboard's *)
(* manual override, the Expedia score extraction, and the orchestrator's   *)
(* post-run validation.                                                    *)
(*                                                                         *)
(* Numbers are exact rationals <<n, d>> counted in hundredths (8.6 is      *)
(* <<860, 1>>); NaN / an empty CSV field is <<0, 0>>.  Column headers,     *)
(* hotel names and CSV field texts are sequences of characters.            *)
(***************************************************************************)
EXTENDS Integers, Sequences, FiniteSets, TLC

VARIABLES
    site,        \* the source whose ledger file is modelled
    file,        \* the ledger file of that source on disk
    pc,          \* per process: position in its load-mutate-save cycle
    args,        \* per process: command line / call arguments of the cycle
    df,          \* per process: the in-memory DataFrame
    loaded,      \* per process: what the process saw on disk when it loaded
    new_scores,  \* per process: hotel -> score collected by the scraper loop
    lastSaver,   \* the process whose to_csv wrote the file last (0: none)
    runs,        \* number of cycles started so far
    \* one hotel of an Expedia run
    payload,     \* the page the hotel's URL serves
    url,         \* the hotel's entry in EXPEDIA_URLS
    xpc,         \* position in main()'s loop body for the hotel
    html,        \* whether fetch_page returned the page
    score,       \* what get_expedia_score returned
    details,     \* what debug_expedia_score_candidates returned
    cell,        \* the ledger cell (hotel, run date)
    \* the orchestrator (src/run.py)
    csv,         \* the site's CSV as the site script left it
    target,      \* --date
    run_in,      \* environment and subprocess outcome of the site script
    rpc,         \* position of run_site
    result,      \* the SiteResult returned
    \* a ledger written to its CSV file and read back
    mem,         \* the DataFrame a scraper holds when it saves
    disk,        \* the text of the file: header fields and rows of fields
    back,        \* the DataFrame ensure_csv returns for the file
    tpc,         \* position: "start", "saved", "loaded"
    \* a score as a page writes it, and what an extractor reads
    shown,       \* the number's digits, its decimal separator, the wording
    found,       \* what the extractor returned
    reader,      \* which extractor ran ("start": none yet)
    \* the ledgers of all sources, one cycle per source
    ledger,      \* path -> the file at that path
    ledger0,     \* path -> the file that was there before any cycle started
    cyc,         \* source -> position, arguments, frame and scores of its cycle
    started,     \* number of cycles started
    \* the orchestrator's main() (src/run.py)
    argv,        \* --sites, --fail-on-warning
    environ,     \* the environment variables that are set
    sites,       \* normalize_sites(args.sites)
    selected,    \* the known sites among them
    results,     \* the SiteResults collected so far, with their site
    loop_i,      \* position of the loop in selected
    running,     \* the site scripts that have been started and not ended
    mpc,         \* "start", "loop", "exited"
    exit_code,   \* what main() returned
    fetcher,     \* the retry loop that runs: "expedia" (fetch_page), "booking"
    furl,        \* the url it is given
    retry_limit, \* its retries argument
    attempt_no,  \* the loop variable attempt
    tried,       \* the outcome of every request made so far
    fret,        \* what the function returned
    fpc          \* "start", "loop", "returned"

ledgerVars == <<site, file, pc, args, df, loaded, new_scores, lastSaver, runs>>
extractVars == <<payload, url, xpc, html, score, details, cell>>
runVars == <<csv, target, run_in, rpc, result>>
tripVars == <<mem, disk, back, tpc>>
textVars == <<shown, found, reader>>
sourceVars == <<ledger, ledger0, cyc, started>>
mainVars == <<argv, environ, sites, selected, results, loop_i, running, mpc, exit_code>>
fetchVars == <<fetcher, furl, retry_limit, attempt_no, tried, fret, fpc>>
vars == <<ledgerVars, extractVars, runVars, tripVars, textVars, sourceVars, mainVars, fetchVars>>

-----------------------------------------------------------------------------
(* Bounds *)

MaxRuns == 3

-----------------------------------------------------------------------------
(* Numbers *)

Null == <<0, 0>>
IsNull(c) == c[2] = 0
Num(h) == <<h, 1>>

RECURSIVE GCD(_, _)
GCD(a, b) == IF b = 0 THEN a ELSE GCD(b, a % b)

\* n/d in lowest terms (n >= 0, d > 0)
Ratio(n, d) == LET g == GCD(n, d) IN <<n \div g, d \div g>>

\* Series.round(2): nearest hundredth, ties to the even neighbour; NaN stays NaN
Round2(q) ==
    IF IsNull(q) THEN Null
    ELSE LET n == q[1]
             d == q[2]
             lo == n \div d
             r == n % d
         IN  IF 2 * r < d THEN Num(lo)
             ELSE IF 2 * r > d THEN Num(lo + 1)
             ELSE IF lo % 2 = 0 THEN Num(lo) ELSE Num(lo + 1)

-----------------------------------------------------------------------------
(* Text *)

Digits == {"0", "1", "2", "3", "4", "5", "6", "7", "8", "9"}

AvgCol == <<"A", "v", "e", "r", "a", "g", "e", " ", "S", "c", "o", "r", "e">>
D0 == <<"2", "0", "2", "6", "-", "0", "2", "-", "1", "1">>
D1 == <<"2", "0", "2", "6", "-", "0", "2", "-", "1", "2">>
D2 == <<"2", "0", "2", "6", "-", "0", "2", "-", "1", "3">>
BadDate == <<"t", "o", "d", "a", "y">>

\* variant: the pattern is searched for anywhere in the header
DATE_COL_RE_search(c) ==
    \E k \in 0..(Len(c) - 10) :
        \A i \in 1..10 : IF i \in {5, 8} THEN c[k + i] = "-" ELSE c[k + i] \in Digits

\* re.compile(r"\d{4}-\d{2}-\d{2}").fullmatch(c)
DATE_COL_RE(c) ==
    /\ Len(c) = 10
    /\ \A i \in 1..10 : IF i \in {5, 8} THEN c[i] = "-" ELSE c[i] \in Digits

\* str.strip(): drop leading and trailing blanks
RECURSIVE LStrip(_)
LStrip(s) == IF s # <<>> /\ Head(s) = " " THEN LStrip(Tail(s)) ELSE s
RECURSIVE RStrip(_)
RStrip(s) ==
    IF s # <<>> /\ s[Len(s)] = " " THEN RStrip(SubSeq(s, 1, Len(s) - 1)) ELSE s
Strip(s) == RStrip(LStrip(s))

\* code points of the characters used in hotel names
Ord(ch) == CASE ch = " " -> 32 [] ch = "A" -> 65 [] ch = "B" -> 66
             [] ch = "C" -> 67 [] OTHER -> 127

\* s < t in Python's string order
RECURSIVE StrLess(_, _)
StrLess(s, t) ==
    IF t = <<>> THEN FALSE
    ELSE IF s = <<>> THEN TRUE
    ELSE IF Head(s) # Head(t) THEN Ord(Head(s)) < Ord(Head(t))
    ELSE StrLess(Tail(s), Tail(t))

-----------------------------------------------------------------------------
(* Sources and hotels *)

Sites == {"Booking", "Expedia", "Google", "HolidayCheck", "Tripadvisor"}

\* dashboard/app.py SCALE_MAX, in hundredths
SCALE_MAX(s) == CASE s = "Booking" -> 1000 [] s = "Tripadvisor" -> 500
                  [] s = "Google" -> 500 [] s = "Expedia" -> 1000
                  [] s = "HolidayCheck" -> 600

HotelA == <<"A">>
HotelB == <<"B">>
\* keys of URLS / EXPEDIA_URLS / HOTEL_QUERIES / LOCATION_IDS, in dict order
Hotels == <<HotelA, HotelB>>
HotelSet == {Hotels[i] : i \in 1..Len(Hotels)}

\* the dates runs and overrides are made for
Dates == {D1, D2}
\* what --date can hold
RunDates == {D1, D2, BadDate}

-----------------------------------------------------------------------------
(* DataFrames and ledger files *)

Range(s) == {s[i] : i \in 1..Len(s)}

\* a DataFrame: ordered column labels, ordered rows (index label + cells)
EmptyDf == [cols |-> <<>>, rows |-> <<>>]
NoFile == [exists |-> FALSE, hotelCol |-> FALSE, cols |-> <<>>, rows |-> <<>>]

HasCol(t, c) == c \in Range(t.cols)
HasRow(t, h) == \E i \in 1..Len(t.rows) : t.rows[i].name = h
NullCells(t) == [c \in Range(t.cols) |-> Null]

\* variant: the new row is filled with zeros
AddRow_zeros(t, h) ==
    [t EXCEPT !.rows = Append(t.rows, [name |-> h,
                                        cells |-> [c \in Range(t.cols) |-> Num(0)]])]

\* df.loc[h] = <all-NaN row> for a label that is not in the index
AddRow(t, h) ==
    [t EXCEPT !.rows = Append(t.rows, [name |-> h, cells |-> NullCells(t)])]

\* df[c] = <Series>: replace column c in place, or append it as last column;
\* V(row) is the value the Series has for the row (NaN when it has none)
AssignCol(t, c, V(_)) ==
    [cols |-> IF HasCol(t, c) THEN t.cols ELSE Append(t.cols, c),
     rows |-> [i \in 1..Len(t.rows) |->
                 [name |-> t.rows[i].name,
                  cells |-> [x \in Range(t.cols) \cup {c} |->
                               IF x = c THEN V(t.rows[i])
                               ELSE t.rows[i].cells[x]]]]]

\* variant: a cell that holds a value keeps it
SetCell_if_empty(t, h, c, v) ==
    [t EXCEPT !.rows = [i \in 1..Len(t.rows) |->
        IF t.rows[i].name = h /\ IsNull(t.rows[i].cells[c])
        THEN [t.rows[i] EXCEPT !.cells = [@ EXCEPT ![c] = v]]
        ELSE t.rows[i]]]

\* df.loc[h, c] = v for an existing row label and column
SetCell(t, h, c, v) ==
    [t EXCEPT !.rows = [i \in 1..Len(t.rows) |->
        IF t.rows[i].name = h
        THEN [t.rows[i] EXCEPT !.cells = [@ EXCEPT ![c] = v]]
        ELSE t.rows[i]]]

\* variant: cells that are empty in the frame keep what the file on disk has
to_csv_merge(t) ==
    [exists |-> TRUE, hotelCol |-> TRUE, cols |-> t.cols,
     rows |-> [i \in 1..Len(t.rows) |->
                 [name |-> t.rows[i].name,
                  cells |-> [c \in Range(t.cols) |->
                     IF IsNull(t.rows[i].cells[c]) /\ file.exists /\ c \in Range(file.cols)
                        /\ \E k \in 1..Len(file.rows) : file.rows[k].name = t.rows[i].name
                     THEN (CHOOSE r \in Range(file.rows) :
                              r.name = t.rows[i].name).cells[c]
                     ELSE t.rows[i].cells[c]]]]]

\* DataFrame.to_csv(path, sep=";", index_label="Hotel")
to_csv(t) == [exists |-> TRUE, hotelCol |-> TRUE, cols |-> t.cols, rows |-> t.rows]

\* pd.read_csv(path, sep=";", index_col="Hotel") of a file with a Hotel column
read_csv(f) == [cols |-> f.cols, rows |-> f.rows]

\* ensure_csv, branch "file does not exist": the seeded frame
SeedDf ==
    [cols |-> <<AvgCol>>,
     rows |-> [i \in 1..Len(Hotels) |->
                 [name |-> Hotels[i], cells |-> (AvgCol :> Null)]]]

\* variant: every known hotel gets a new row
RECURSIVE AddMissingHotels_always(_, _)
AddMissingHotels_always(t, hs) ==
    IF hs = <<>> THEN t
    ELSE AddMissingHotels_always(AddRow(t, Head(hs)), Tail(hs))

RECURSIVE AddMissingHotels(_, _)
AddMissingHotels(t, hs) ==
    IF hs = <<>> THEN t
    ELSE AddMissingHotels(IF HasRow(t, Head(hs)) THEN t ELSE AddRow(t, Head(hs)),
                          Tail(hs))

NullOf(row) == Null

\* ensure_csv, branch "file exists"
ensure_csv(f) ==
    LET t == AddMissingHotels(read_csv(f), Hotels)
    IN  IF HasCol(t, AvgCol) THEN t ELSE AssignCol(t, AvgCol, NullOf)

RECURSIVE SumCells(_, _)
SumCells(row, cs) ==
    IF cs = <<>> THEN 0 ELSE row.cells[Head(cs)][1] + SumCells(row, Tail(cs))

\* df[date_cols].mean(axis=1) for one row: NaN cells are skipped
RowMean(row, date_cols) ==
    LET present == SelectSeq(date_cols, LAMBDA c : ~IsNull(row.cells[c]))
    IN  IF present = <<>> THEN Null
        ELSE Ratio(SumCells(row, present), Len(present))

DateCols(t) == SelectSeq(t.cols, DATE_COL_RE)

\* variant: the average column is moved behind the date columns
update_average_moved_last(t) ==
    LET Avg(row) == Round2(RowMean(row, DateCols(t)))
        rest == SelectSeq(t.cols, LAMBDA c : c # AvgCol)
        u == [cols |-> rest,
              rows |-> [i \in 1..Len(t.rows) |->
                          [name |-> t.rows[i].name,
                           cells |-> [c \in Range(rest) |-> t.rows[i].cells[c]]]]]
    IN  IF DateCols(t) # <<>> THEN AssignCol(u, AvgCol, Avg) ELSE t

\* update_average of expedia.py, google.py, holidaycheck.py, tripadvisor.py
update_average(t) ==
    LET Avg(row) == Round2(RowMean(row, DateCols(t)))
    IN  IF DateCols(t) # <<>> THEN AssignCol(t, AvgCol, Avg) ELSE t

\* update_average of booking.py: the mean is stored as computed
update_average_booking(t) ==
    LET Avg(row) == RowMean(row, DateCols(t))
    IN  IF DateCols(t) # <<>> THEN AssignCol(t, AvgCol, Avg) ELSE t

\* update_average of dashboard/app.py
update_average_app(t) ==
    LET Avg(row) == Round2(RowMean(row, DateCols(t)))
    IN  IF DateCols(t) # <<>> THEN AssignCol(t, AvgCol, Avg) ELSE t

\* variant: after averaging, the empty date cells of a row are filled with
\* the row's average
SiteUpdateAverage_filled(s, t) ==
    LET u == IF s = "Booking" THEN update_average_booking(t) ELSE update_average(t)
    IN  [u EXCEPT !.rows = [i \in 1..Len(u.rows) |->
            [u.rows[i] EXCEPT !.cells = [c \in Range(u.cols) |->
                IF DATE_COL_RE(c) /\ IsNull(u.rows[i].cells[c])
                THEN u.rows[i].cells[AvgCol]
                ELSE u.rows[i].cells[c]]]]]

\* the scraper's "Write column & update average" for source s
SiteUpdateAverage(s, t) ==
    IF s = "Booking" THEN update_average_booking(t) ELSE update_average(t)

\* variant: a row without a score keeps the cell it has
WriteColumn_keep(t, today_col, scores) ==
    LET V(row) == IF row.name \in DOMAIN scores /\ ~IsNull(scores[row.name])
                  THEN scores[row.name]
                  ELSE IF HasCol(t, today_col) THEN row.cells[today_col] ELSE Null
    IN  AssignCol(t, today_col, V)

\* df[today_col] = pd.Series(new_scores): rows the Series has no score for get NaN
WriteColumn(t, today_col, scores) ==
    LET V(row) == IF row.name \in DOMAIN scores THEN scores[row.name] ELSE Null
    IN  AssignCol(t, today_col, V)

(* set_manual_score: index normalisation *)

RECURSIVE SortNames(_)
SortNames(S) ==
    IF S = {} THEN <<>>
    ELSE LET m == CHOOSE x \in S : \A y \in S \ {x} : StrLess(x, y)
         IN  <<m>> \o SortNames(S \ {m})

\* GroupBy.first(): per column the first non-null value of the group
FirstNonNull(rows, key, c) ==
    LET idx == {i \in 1..Len(rows) :
                   Strip(rows[i].name) = key /\ ~IsNull(rows[i].cells[c])}
    IN  IF idx = {} THEN Null
        ELSE rows[CHOOSE i \in idx : \A j \in idx : i <= j].cells[c]

\* df.index = df.index.astype(str).str.strip(); df = df.groupby(level=0).first()
GroupFirst(t) ==
    LET keys == SortNames({Strip(t.rows[i].name) : i \in 1..Len(t.rows)})
    IN  [cols |-> t.cols,
         rows |-> [k \in 1..Len(keys) |->
                     [name |-> keys[k],
                      cells |-> [c \in Range(t.cols) |->
                                   FirstNonNull(t.rows, keys[k], c)]]]]

\* set_manual_score from read_csv to update_average (everything but to_csv)
set_manual_score(f, hotel, date_col, value) ==
    LET t0 == GroupFirst(read_csv(f))
        h == Strip(hotel)
        t1 == IF HasRow(t0, h) THEN t0 ELSE AddRow(t0, h)
        t2 == IF HasCol(t1, date_col) THEN t1 ELSE AssignCol(t1, date_col, NullOf)
        t3 == SetCell(t2, h, date_col, value)
    IN  update_average_app(t3)

\* load_source_df of the dashboard: None (here the empty frame) for a missing
\* file or one without a Hotel column, else the rows grouped by trimmed name
load_source_df(f) ==
    IF ~f.exists \/ ~f.hotelCol THEN EmptyDf ELSE GroupFirst(read_csv(f))

-----------------------------------------------------------------------------
(* Expedia: score extraction (src/sites/expedia.py)                        *)
(*                                                                         *)
(* A payload is the fetched page reduced to what the four strategies look  *)
(* at:                                                                     *)
(*   fields : the rating fields ("ratingValue": "8.6" and the like) in     *)
(*            document order; each has its score text, the distance (gap)  *)
(*            from the previous field, its key ("ratingValue" or           *)
(*            "reviewScore"), the bestRating hint written next to          *)
(*            it (0: none), whether review / star-classification keywords *)
(*            stand next to it, and its form: "ld" (an aggregateRating     *)
(*            object of a JSON-LD script), "raw" (inline script, plain     *)
(*            quotes), "esc" (quotes written \"), "esc2" (written \\")     *)
(*   section: whether the page has <section id="Reviews">                  *)
(*   divs   : the <div>s carrying the three uitk score classes, with their *)
(*            text (-1: not a number) and whether they are in the section  *)
(*   text   : for each of the three textual patterns, the number of its    *)
(*            first match in the page text (-1: no match)                  *)
(* Scores are in hundredths.                                               *)
(***************************************************************************)

Window == 180
DEFAULT_RETRIES == 2
EXPEDIA_MAX == 1000

\* variant: only negative numbers are rejected
_safe_float_unbounded(v) == IF v >= 0 THEN Num(v) ELSE Null

\* _safe_float on a matched number: the score if within 0..10, else None
\* (v = -1 stands for a text float() rejects)
_safe_float(v) == IF v >= 0 /\ v <= EXPEDIA_MAX THEN Num(v) ELSE Null

\* variant: the rank alone decides
KeyGreater_rank_only(c, e) == c[1] > e[1]

\* key of sort(key=lambda x: (x[0], x[1])): c sorts strictly before e in reverse order
KeyGreater(c, e) == c[1] > e[1] \/ (c[1] = e[1] /\ c[2] > e[2])

\* list.sort(..., reverse=True) is stable: insert c behind the entries that
\* are not smaller than it
RECURSIVE InsertDesc(_, _)
InsertDesc(c, sorted) ==
    IF sorted = <<>> THEN <<c>>
    ELSE IF KeyGreater(c, Head(sorted)) THEN <<c>> \o sorted
    ELSE <<Head(sorted)>> \o InsertDesc(c, Tail(sorted))

RECURSIVE SortDesc(_)
SortDesc(cands) ==
    IF cands = <<>> THEN <<>>
    ELSE InsertDesc(cands[Len(cands)], SortDesc(SubSeq(cands, 1, Len(cands) - 1)))

\* "if not candidates: return None; candidates.sort(...); return candidates[0][1]"
Resolve(cands) == IF cands = <<>> THEN Null ELSE Num(SortDesc(cands)[1][2])

\* rank of an aggregateRating body in _extract_jsonld_score
JsonldRank(f) ==
    (IF f.best = 10 THEN 6 ELSE 0) - (IF f.best = 5 THEN 6 ELSE 0)
    + (IF f.review THEN 3 ELSE 0) - (IF f.star THEN 4 ELSE 0)

\* candidates of _extract_jsonld_score: in-range scores of the JSON-LD blocks
JsonldCandidates(page) ==
    LET ld == SelectSeq(page.fields,
                        LAMBDA f : f.form = "ld" /\ ~IsNull(_safe_float(f.score)))
    IN  [i \in 1..Len(ld) |-> <<JsonldRank(ld[i]), ld[i].score>>]

_extract_jsonld_score(page) == Resolve(JsonldCandidates(page))

\* _extract_semantic_div_score: the first score div whose text is a score in range
RECURSIVE FirstInRange(_)
FirstInRange(vs) ==
    IF vs = <<>> THEN Null
    ELSE IF ~IsNull(_safe_float(Head(vs))) THEN _safe_float(Head(vs))
    ELSE FirstInRange(Tail(vs))

\* _extract_semantic_div_score(soup): the score divs below the given node
_extract_semantic_div_score(divs) ==
    FirstInRange([i \in 1..Len(divs) |-> divs[i].text])

\* reviews_section = soup.find("section", id="Reviews") or the whole page
ReviewsSection(page) ==
    IF page.section THEN SelectSeq(page.divs, LAMBDA d : d.inReviews)
    ELSE page.divs

\* _extract_textual_score: per pattern only the first match is looked at
_extract_textual_score(page) == FirstInRange(page.text)

\* position of field i: the gaps up to it added up
RECURSIVE Offset(_, _)
Offset(fields, i) == IF i <= 1 THEN 0 ELSE Offset(fields, i - 1) + fields[i].gap

Dist(fields, i, j) ==
    LET d == Offset(fields, i) - Offset(fields, j) IN IF d < 0 THEN 0 - d ELSE d


\* which of the five patterns (1: reviewScore, 2: overallRating, 3: ratingValue,
\* 4: \"ratingValue\", 5: \\"ratingValue\\") finds the field in scanned text v;
\* 0: none.  Text 2 has every \" turned into ", text 3 every \\ into \.
PatternFor(v, f) ==
    IF f.key = "ratingValue"
    THEN CASE f.form \in {"ld", "raw"} -> 3
           [] f.form = "esc" -> IF v = 2 THEN 3 ELSE 4
           [] f.form = "esc2" -> IF v = 1 THEN 5 ELSE 4
    ELSE CASE f.form \in {"ld", "raw"} -> 1
           [] f.form = "esc" -> IF v = 2 THEN 1 ELSE 0
           [] f.form = "esc2" -> 0

\* the context regex  bestRating"\s*:\s*"?(10|10\.0)  needs a plain quote
\* behind the key: an escaped hint is only seen once \" has been unescaped
HintVisible(v, form) ==
    form \in {"ld", "raw"} \/ (form = "esc" /\ v = 2)

InWindow(fields, i) == {j \in 1..Len(fields) : Dist(fields, i, j) <= Window}

\* rank of one occurrence from the 180 characters before and after it
EmbeddedRank(fields, i, v) ==
    LET ctx == InWindow(fields, i)
    IN  (IF \E j \in ctx : fields[j].best = 10 /\ HintVisible(v, fields[j].form)
         THEN 6 ELSE 0)
      - (IF \E j \in ctx : fields[j].best = 5 /\ HintVisible(v, fields[j].form)
         THEN 6 ELSE 0)
      + (IF \E j \in ctx : fields[j].review \/ fields[j].key = "reviewScore"
         THEN 4 ELSE 0)
      - (IF \E j \in ctx : fields[j].star THEN 6 ELSE 0)

\* scored_matches of _extract_embedded_json_score for one scanned text
VariantCandidates(page, v) ==
    LET fs == page.fields
        hit == SelectSeq([i \in 1..Len(fs) |-> i],
                         LAMBDA i : PatternFor(v, fs[i]) # 0
                                    /\ ~IsNull(_safe_float(fs[i].score)))
    IN  [k \in 1..Len(hit) |-> <<EmbeddedRank(fs, hit[k], v), fs[hit[k]].score>>]

EmbeddedCandidates(page) ==
    VariantCandidates(page, 1) \o VariantCandidates(page, 2)
        \o VariantCandidates(page, 3)

_extract_embedded_json_score(page) == Resolve(EmbeddedCandidates(page))

\* fetch_page: attempts[k] tells whether the k-th request succeeds;
\* the result is the number of the successful attempt, 0 for None
RECURSIVE FetchFrom(_, _, _)
FetchFrom(attempts, k, retries) ==
    IF k > retries + 1 THEN 0
    ELSE IF attempts[k] THEN k
    ELSE FetchFrom(attempts, k + 1, retries)

fetch_page(u, attempts, retries) ==
    IF u = <<>> THEN 0 ELSE FetchFrom(attempts, 1, retries)

\* variant: the embedded script is consulted before the visible text
get_expedia_score_embedded_first(got, page) ==
    IF ~got THEN Null
    ELSE IF ~IsNull(_extract_jsonld_score(page))
         THEN _extract_jsonld_score(page)
    ELSE IF ~IsNull(_extract_semantic_div_score(ReviewsSection(page)))
         THEN _extract_semantic_div_score(ReviewsSection(page))
    ELSE IF ~IsNull(_extract_embedded_json_score(page))
         THEN _extract_embedded_json_score(page)
    ELSE _extract_textual_score(page)

\* get_expedia_score once fetch_page has returned (got = FALSE: it returned None)
get_expedia_score(got, page) ==
    IF ~got THEN Null
    ELSE IF ~IsNull(_extract_jsonld_score(page))
         THEN _extract_jsonld_score(page)
    ELSE IF ~IsNull(_extract_semantic_div_score(ReviewsSection(page)))
         THEN _extract_semantic_div_score(ReviewsSection(page))
    ELSE IF ~IsNull(_extract_textual_score(page))
         THEN _extract_textual_score(page)
    ELSE _extract_embedded_json_score(page)

\* debug_expedia_score_candidates once fetch_page has returned: every
\* extractor is run on the whole page
NoDetails ==
    [fetch_ok |-> FALSE, jsonld_score |-> Null, semantic_div_score |-> Null,
     textual_score |-> Null, embedded_json_score |-> Null]

debug_expedia_score_candidates(got, page) ==
    IF ~got THEN NoDetails
    ELSE [fetch_ok |-> TRUE,
          jsonld_score |-> _extract_jsonld_score(page),
          semantic_div_score |-> _extract_semantic_div_score(page.divs),
          textual_score |-> _extract_textual_score(page),
          embedded_json_score |-> _extract_embedded_json_score(page)]

-----------------------------------------------------------------------------
(* What a site answers for one hotel, and what each scraper makes of it    *)
(*   kind "error"  : the request raises or returns an HTTP error status    *)
(*        "bad"    : the response body cannot be parsed                    *)
(*        "nomatch": the body parses but carries no rating                 *)
(*        "value"  : the body carries the rating v (hundredths)            *)
(***************************************************************************)

RawValues == {450, 860, 1100}

Outcomes ==
    {[kind |-> k, v |-> 0] : k \in {"error", "bad", "nomatch"}}
        \cup {[kind |-> "value", v |-> v] : v \in RawValues}

BOOKING_DEFAULT_RETRIES == 2
TRIPADVISOR_MAX == 500

Scored(c) == [raised |-> FALSE, score |-> c]
Raised == [raised |-> TRUE, score |-> Null]

\* fetch_booking_rating: every failure is caught and retried, the first
\* ratingValue found is returned as float(val), None after the last attempt
RECURSIVE BookingFrom(_, _, _)
BookingFrom(attempts, k, retries) ==
    IF k > retries + 1 THEN Null
    ELSE IF attempts[k].kind = "value" THEN Num(attempts[k].v)
    ELSE BookingFrom(attempts, k + 1, retries)

fetch_booking_rating(attempts, retries) == BookingFrom(attempts, 1, retries)

\* the page a hotel's Expedia URL serves for an outcome
PayloadOf(o) ==
    [fields |-> IF o.kind = "value"
                THEN <<[score |-> o.v, gap |-> 0, key |-> "ratingValue",
                        best |-> 10, review |-> TRUE, star |-> FALSE,
                        form |-> "ld"]>>
                ELSE <<>>,
     section |-> FALSE, divs |-> <<>>, text |-> <<-1, -1, -1>>]

\* get_google_rating: requests / json errors propagate, a rating is float(rating)
get_google_rating(o) ==
    CASE o.kind \in {"error", "bad"} -> Raised
      [] o.kind = "nomatch" -> Scored(Null)
      [] o.kind = "value" -> Scored(Num(o.v))

\* get_holidaycheck_score: raise_for_status propagates; the number in front of "/ 6"
get_holidaycheck_score(o) ==
    CASE o.kind = "error" -> Raised
      [] o.kind \in {"bad", "nomatch"} -> Scored(Null)
      [] o.kind = "value" -> Scored(Num(o.v))

\* sanitize_tripadvisor_score
sanitize_tripadvisor_score(c) ==
    IF IsNull(c) THEN Null
    ELSE IF c[1] >= 0 /\ c[1] <= TRIPADVISOR_MAX * c[2] THEN c ELSE Null

\* ta_get_rating: raise_for_status and resp.json() propagate
ta_get_rating(o) ==
    CASE o.kind \in {"error", "bad"} -> Raised
      [] o.kind = "nomatch" -> Scored(Null)
      [] o.kind = "value" -> Scored(sanitize_tripadvisor_score(Num(o.v)))

\* the body of one iteration of main()'s loop over the hotels, per source
HotelScore(s, o) ==
    CASE s = "Booking" ->
           Scored(fetch_booking_rating([k \in 1..(BOOKING_DEFAULT_RETRIES + 1) |-> o],
                                       BOOKING_DEFAULT_RETRIES))
      [] s = "Expedia" ->
           Scored(get_expedia_score(o.kind # "error", PayloadOf(o)))
      [] s = "Google" ->
           \* main() catches every exception of get_google_rating
           IF get_google_rating(o).raised THEN Scored(Null) ELSE get_google_rating(o)
      [] s = "HolidayCheck" -> get_holidaycheck_score(o)
      [] s = "Tripadvisor" ->
           IF ta_get_rating(o).raised THEN Raised
           ELSE Scored(sanitize_tripadvisor_score(ta_get_rating(o).score))

\* main()'s loop: the hotels before the first one that raises are scored
FirstRaise(s, os) ==
    LET bad == {i \in 1..Len(Hotels) : HotelScore(s, os[Hotels[i]]).raised}
    IN  IF bad = {} THEN 0 ELSE CHOOSE i \in bad : \A j \in bad : i <= j

LoopScores(s, os) ==
    [h \in HotelSet |->
        LET i == CHOOSE k \in 1..Len(Hotels) : Hotels[k] = h
        IN  IF FirstRaise(s, os) # 0 /\ i >= FirstRaise(s, os) THEN Null
            ELSE HotelScore(s, os[h]).score]

-----------------------------------------------------------------------------
(* The load-mutate-save cycles on one ledger file *)

NoArgs == [kind |-> "none", date |-> <<>>, hotel |-> <<>>, score |-> Null]
NoScores == [h \in HotelSet |-> Null]
NeedsApiKey(s) == s \in {"Google", "Tripadvisor"}
Terminal == {"done", "arg_failed", "load_failed", "fetch_failed", "viewed"}

\* variant: a header without the Hotel column is read like any other
ReadCsvRaises_never(f) == FALSE

\* pd.read_csv(path, sep=";", index_col="Hotel") raises ValueError when the
\* header has no Hotel column
ReadCsvRaises(f) == ~f.hotelCol

PaddedA == <<" ", "A", " ">>
ManualHotels == {HotelA, HotelB, PaddedA}
\* the score argument of set_manual_score: any float
ManualScores == RawValues

\* a scraper's main() up to os.path.exists(csv_path) in ensure_csv
StartScraper(p, dates) ==
    /\ pc[p] = "idle"
    /\ runs < MaxRuns
    /\ \E d \in dates, api_key \in BOOLEAN :
          /\ api_key \/ NeedsApiKey(site)
          /\ args' = [args EXCEPT ![p] = [kind |-> "scraper", date |-> d,
                                          hotel |-> <<>>, score |-> Null]]
          /\ pc' = [pc EXCEPT ![p] =
                      IF ~DATE_COL_RE(d) \/ ~api_key THEN "arg_failed"
                      ELSE IF file.exists THEN "check_true" ELSE "check_false"]
    /\ runs' = runs + 1
    /\ UNCHANGED <<site, file, df, loaded, new_scores, lastSaver>>
    /\ UNCHANGED <<extractVars, runVars, tripVars, textVars, sourceVars, mainVars, fetchVars>>

\* set_manual_score up to csv_path.exists()
StartManual(p, dates) ==
    /\ pc[p] = "idle"
    /\ runs < MaxRuns
    /\ \E h \in ManualHotels, d \in dates, v \in ManualScores :
          args' = [args EXCEPT ![p] = [kind |-> "manual", date |-> d,
                                       hotel |-> h, score |-> Num(v)]]
    /\ pc' = [pc EXCEPT ![p] = IF file.exists THEN "check_true" ELSE "load_failed"]
    /\ runs' = runs + 1
    /\ UNCHANGED <<site, file, df, loaded, new_scores, lastSaver>>
    /\ UNCHANGED <<extractVars, runVars, tripVars, textVars, sourceVars, mainVars, fetchVars>>

\* the dashboard reads the ledger: main()'s load_source_df(path)
LoadSource(p) ==
    /\ pc[p] = "idle"
    /\ runs < MaxRuns
    /\ args' = [args EXCEPT ![p] = [kind |-> "view", date |-> <<>>,
                                    hotel |-> <<>>, score |-> Null]]
    /\ loaded' = [loaded EXCEPT ![p] = file]
    /\ df' = [df EXCEPT ![p] = load_source_df(file)]
    /\ pc' = [pc EXCEPT ![p] = "viewed"]
    /\ runs' = runs + 1
    /\ UNCHANGED <<site, file, new_scores, lastSaver>>
    /\ UNCHANGED <<extractVars, runVars, tripVars, textVars, sourceVars, mainVars, fetchVars>>

\* ensure_csv after the exists test (creating the file when it was missing),
\* resp. set_manual_score from read_csv to update_average
Load(p) ==
    /\ pc[p] \in {"check_true", "check_false"}
    /\ IF pc[p] = "check_false"
       THEN /\ df' = [df EXCEPT ![p] = SeedDf]
            /\ file' = to_csv(SeedDf)
            /\ lastSaver' = 0
            /\ loaded' = [loaded EXCEPT ![p] = NoFile]
            /\ pc' = [pc EXCEPT ![p] = "loaded"]
       ELSE IF ReadCsvRaises(file)
       THEN /\ pc' = [pc EXCEPT ![p] = "load_failed"]
            /\ UNCHANGED <<df, file, lastSaver, loaded>>
       ELSE /\ df' = [df EXCEPT ![p] =
                        IF args[p].kind = "scraper" THEN ensure_csv(file)
                        ELSE set_manual_score(file, args[p].hotel, args[p].date,
                                              args[p].score)]
            /\ loaded' = [loaded EXCEPT ![p] = file]
            /\ pc' = [pc EXCEPT ![p] =
                        IF args[p].kind = "scraper" THEN "loaded" ELSE "ready"]
            /\ UNCHANGED <<file, lastSaver>>
    /\ UNCHANGED <<site, args, new_scores, runs>>
    /\ UNCHANGED <<extractVars, runVars, tripVars, textVars, sourceVars, mainVars, fetchVars>>

\* main()'s loop over the hotels
Scrape(p) ==
    /\ pc[p] = "loaded"
    /\ \E os \in [HotelSet -> Outcomes] :
          /\ new_scores' = [new_scores EXCEPT ![p] = LoopScores(site, os)]
          /\ pc' = [pc EXCEPT ![p] =
                      IF FirstRaise(site, os) # 0 THEN "fetch_failed" ELSE "ready"]
    /\ UNCHANGED <<site, file, args, df, loaded, lastSaver, runs>>
    /\ UNCHANGED <<extractVars, runVars, tripVars, textVars, sourceVars, mainVars, fetchVars>>

\* "Write column & update average" and to_csv, resp. set_manual_score's to_csv
Save(p) ==
    /\ pc[p] = "ready"
    /\ LET out == IF args[p].kind = "scraper"
                  THEN SiteUpdateAverage(site,
                           WriteColumn(df[p], args[p].date, new_scores[p]))
                  ELSE df[p]
       IN  /\ df' = [df EXCEPT ![p] = out]
           /\ file' = to_csv(out)
    /\ lastSaver' = p
    /\ pc' = [pc EXCEPT ![p] = "done"]
    /\ UNCHANGED <<site, args, loaded, new_scores, runs>>
    /\ UNCHANGED <<extractVars, runVars, tripVars, textVars, sourceVars, mainVars, fetchVars>>

\* the process exits; the next cycle starts from scratch
Exit(p) ==
    /\ pc[p] \in Terminal
    /\ pc' = [pc EXCEPT ![p] = "idle"]
    /\ args' = [args EXCEPT ![p] = NoArgs]
    /\ df' = [df EXCEPT ![p] = EmptyDf]
    /\ loaded' = [loaded EXCEPT ![p] = NoFile]
    /\ new_scores' = [new_scores EXCEPT ![p] = NoScores]
    /\ UNCHANGED <<site, file, lastSaver, runs>>
    /\ UNCHANGED <<extractVars, runVars, tripVars, textVars, sourceVars, mainVars, fetchVars>>

InitLedger(procs, files) ==
    /\ site \in Sites
    /\ file \in files
    /\ pc = [p \in procs |-> "idle"]
    /\ args = [p \in procs |-> NoArgs]
    /\ df = [p \in procs |-> EmptyDf]
    /\ loaded = [p \in procs |-> NoFile]
    /\ new_scores = [p \in procs |-> NoScores]
    /\ lastSaver = 0
    /\ runs = 0

\* a ledger file without the Hotel column
NoHotelFile == [exists |-> TRUE, hotelCol |-> FALSE, cols |-> <<>>, rows |-> <<>>]

\* a ledger edited by hand: no average column, hotel A twice (once padded,
\* the numbers in the second row), hotel B not at all
DupFile ==
    [exists |-> TRUE, hotelCol |-> TRUE, cols |-> <<D0>>,
     rows |-> <<[name |-> HotelA, cells |-> (D0 :> Null)],
                [name |-> PaddedA, cells |-> (D0 :> Num(860))]>>]

\* the ledger an earlier run for D0 left behind: hotel A scored 4.5, hotel B not
OldFile ==
    [exists |-> TRUE, hotelCol |-> TRUE, cols |-> <<AvgCol, D0>>,
     rows |-> <<[name |-> HotelA, cells |-> (AvgCol :> Num(450)) @@ (D0 :> Num(450))],
                [name |-> HotelB, cells |-> (AvgCol :> Null) @@ (D0 :> Null)]>>]

-----------------------------------------------------------------------------
(* One hotel of an Expedia run: fetch, extract, write the cell *)

MaxFields == 2
Near == 60
Far == 400

EmptyPayload == [fields |-> <<>>, section |-> FALSE, divs |-> <<>>, text |-> <<-1, -1, -1>>]

Field(sc, k, b, rv, st, fm) ==
    [score |-> sc, gap |-> 0, key |-> k, best |-> b, review |-> rv, star |-> st,
     form |-> fm]

\* the rating fields pages are built from: review aggregates (hint 10), star
\* classifications (hint 5) and bare fields, with and without the keywords
\* that usually stand next to them, in every form the patterns provide for
FieldKinds ==
    {Field(sc, "ratingValue", h[1], h[2], h[3], "ld") :
        sc \in {400, 500},
        h \in {<<10, TRUE, FALSE>>, <<10, FALSE, TRUE>>, <<5, FALSE, TRUE>>,
               <<5, TRUE, FALSE>>, <<0, FALSE, FALSE>>}}
    \cup {Field(sc, "ratingValue", h[1], h[2], h[3], "raw") :
        sc \in {400, 500},
        h \in {<<10, FALSE, TRUE>>, <<5, TRUE, FALSE>>, <<0, FALSE, FALSE>>}}
    \cup {Field(sc, "ratingValue", h[1], h[2], h[3], "esc") :
        sc \in {400, 500},
        h \in {<<10, TRUE, FALSE>>, <<5, FALSE, TRUE>>, <<5, FALSE, FALSE>>}}
    \cup {Field(1100, "ratingValue", 10, TRUE, FALSE, fm) : fm \in {"ld", "raw"}}
    \cup {Field(400, "reviewScore", 0, FALSE, FALSE, fm) : fm \in {"raw", "esc"}}
    \cup {Field(500, "ratingValue", 10, TRUE, FALSE, "esc2")}

\* field sequences of a given length; every field but the first is Near or
\* Far behind its predecessor
RECURSIVE FieldSeqs(_)
FieldSeqs(n) ==
    IF n = 0 THEN {<<>>}
    ELSE IF n = 1 THEN {<<f>> : f \in FieldKinds}
    ELSE {Append(fs, [f EXCEPT !.gap = g]) :
             fs \in FieldSeqs(n - 1), f \in FieldKinds, g \in {Near, Far}}

DivSeqs ==
    {<<>>,
     <<[text |-> 860, inReviews |-> FALSE]>>,
     <<[text |-> 1100, inReviews |-> TRUE], [text |-> 860, inReviews |-> TRUE]>>,
     <<[text |-> -1, inReviews |-> TRUE], [text |-> 860, inReviews |-> FALSE]>>}

TextHits == {<<-1, -1, -1>>, <<1100, 450, -1>>, <<1100, -1, -1>>}

\* pages with any fields and nothing else, and pages with at most one field
\* and any combination of score divs, Reviews section and text matches
Payloads(maxFields) ==
    {[fields |-> fs, section |-> FALSE, divs |-> <<>>, text |-> <<-1, -1, -1>>] :
        fs \in UNION {FieldSeqs(n) : n \in 0..maxFields}}
    \cup {pl \in {[fields |-> fs, section |-> sec, divs |-> ds, text |-> tx] :
                    fs \in FieldSeqs(0) \cup FieldSeqs(1), sec \in BOOLEAN,
                    ds \in DivSeqs, tx \in TextHits} :
             pl.section \/ \A i \in 1..Len(pl.divs) : ~pl.divs[i].inReviews}

SomeUrl == <<"u">>

ExtractIdle ==
    /\ payload = EmptyPayload
    /\ url = <<>>
    /\ xpc = "off"
    /\ html = FALSE
    /\ score = Null
    /\ details = NoDetails
    /\ cell = Null

RunIdle ==
    /\ csv = NoFile
    /\ target = <<>>
    /\ run_in = <<>>
    /\ rpc = "off"
    /\ result = <<>>

TripIdle ==
    /\ mem = EmptyDf
    /\ disk = [exists |-> FALSE, headers |-> <<>>, rows |-> <<>>]
    /\ back = EmptyDf
    /\ tpc = "off"

TextIdle ==
    /\ shown = <<>>
    /\ found = Null
    /\ reader = "off"

SourcesIdle ==
    /\ ledger = <<>>
    /\ ledger0 = <<>>
    /\ cyc = <<>>
    /\ started = 0

MainIdle ==
    /\ argv = <<>>
    /\ environ = {}
    /\ sites = <<>>
    /\ selected = <<>>
    /\ results = <<>>
    /\ loop_i = 0
    /\ running = {}
    /\ mpc = "off"
    /\ exit_code = 0

FetchIdle ==
    /\ fetcher = "off"
    /\ furl = <<>>
    /\ retry_limit = 0
    /\ attempt_no = 0
    /\ tried = <<>>
    /\ fret = "unset"
    /\ fpc = "off"

LedgerIdle ==
    /\ site = "Expedia"
    /\ file = NoFile
    /\ pc = <<>>
    /\ args = <<>>
    /\ df = <<>>
    /\ loaded = <<>>
    /\ new_scores = <<>>
    /\ lastSaver = 0
    /\ runs = 0

\* the cell (hotel, run date) holds 4.5 from an earlier run
InitExtract ==
    /\ payload \in Payloads(MaxFields)
    /\ url \in {<<>>, SomeUrl}
    /\ xpc = "fetch"
    /\ html = FALSE
    /\ score = Null
    /\ details = NoDetails
    /\ cell = Num(450)
    /\ LedgerIdle
    /\ RunIdle
    /\ TripIdle /\ TextIdle /\ SourcesIdle /\ MainIdle /\ FetchIdle

\* score = get_expedia_score(url, ...): fetch_page, then the strategies
GetExpediaScore ==
    /\ xpc = "fetch"
    /\ \E attempts \in [1..(DEFAULT_RETRIES + 1) -> BOOLEAN] :
          LET got == fetch_page(url, attempts, DEFAULT_RETRIES) # 0
          IN  /\ html' = got
              /\ score' = get_expedia_score(got, payload)
    /\ xpc' = "scored"
    /\ UNCHANGED <<payload, url, details, cell, ledgerVars, runVars, tripVars, textVars, sourceVars, mainVars, fetchVars>>

\* debug_expedia_score_candidates(url)
DebugCandidates ==
    /\ xpc = "fetch"
    /\ \E attempts \in [1..(DEFAULT_RETRIES + 1) -> BOOLEAN] :
          LET got == fetch_page(url, attempts, DEFAULT_RETRIES) # 0
          IN  /\ html' = got
              /\ details' = debug_expedia_score_candidates(got, payload)
    /\ xpc' = "debugged"
    /\ UNCHANGED <<payload, url, score, cell, ledgerVars, runVars, tripVars, textVars, sourceVars, mainVars, fetchVars>>

\* new_scores[hotel] = score ... df[today_col] = pd.Series(new_scores)
WriteScore ==
    /\ xpc = "scored"
    /\ cell' = score
    /\ xpc' = "written"
    /\ UNCHANGED <<payload, url, html, score, details, ledgerVars, runVars, tripVars, textVars, sourceVars, mainVars, fetchVars>>

NextExtract == GetExpediaScore \/ DebugCandidates \/ WriteScore

SpecExtract == InitExtract /\ [][NextExtract]_vars

-----------------------------------------------------------------------------
(* The orchestrator: run_site and validate_site_csv (src/run.py)           *)
(*                                                                         *)
(* validate_site_csv reads the CSV with csv.DictReader: a header row and   *)
(* rows of field texts; a row shorter than the header has None for the     *)
(* missing fields.                                                         *)
(***************************************************************************)

MaxCsvRows == 2

HotelCol == <<"H", "o", "t", "e", "l">>
PadD1 == <<" ">> \o D1
Txt45 == <<"4", ".", "5">>
NoneField == <<"None">>
FieldTexts == {<<>>, <<" ">>, Txt45}

\* row.get(date_col): the field under the header named date_col
RowGet(headers, row, date_col) ==
    LET i == CHOOSE k \in 1..Len(headers) : headers[k] = date_col
    IN  IF i <= Len(row) THEN row[i] ELSE NoneField

\* variant: a field of spaces counts as a score
RECURSIVE CountScored_unstripped(_, _, _)
CountScored_unstripped(headers, rows, date_col) ==
    IF rows = <<>> THEN 0
    ELSE (IF RowGet(headers, Head(rows), date_col) # NoneField
             /\ RowGet(headers, Head(rows), date_col) # <<>>
          THEN 1 ELSE 0)
         + CountScored_unstripped(headers, Tail(rows), date_col)

RECURSIVE CountScored(_, _, _)
CountScored(headers, rows, date_col) ==
    IF rows = <<>> THEN 0
    ELSE (IF RowGet(headers, Head(rows), date_col) # NoneField
             /\ Strip(RowGet(headers, Head(rows), date_col)) # <<>>
          THEN 1 ELSE 0)
         + CountScored(headers, Tail(rows), date_col)

\* variant: the rows are only counted when the date column is there
validate_site_csv_uncounted(c, date_col) ==
    IF ~c.exists THEN <<FALSE, FALSE, 0, 0>>
    ELSE IF date_col \notin Range(c.headers) THEN <<TRUE, FALSE, 0, 0>>
    ELSE <<TRUE, TRUE, CountScored(c.headers, c.rows, date_col), Len(c.rows)>>

\* validate_site_csv -> (exists, has_date, scored, total)
validate_site_csv(c, date_col) ==
    IF ~c.exists THEN <<FALSE, FALSE, 0, 0>>
    ELSE IF date_col \notin Range(c.headers) THEN <<TRUE, FALSE, 0, Len(c.rows)>>
    ELSE <<TRUE, TRUE, CountScored(c.headers, c.rows, date_col), Len(c.rows)>>

SiteResult(st, w, rc, hd, sc, tot) ==
    [status |-> st, warning |-> w, returncode |-> rc, has_date_column |-> hd,
     scored_hotels |-> sc, total_hotels |-> tot]

\* run_site with the csv looked at whatever became of the script
run_site_validates_always(in, c, date_col) ==
    LET v == validate_site_csv(c, date_col)
    IN  IF \E name \in in.required_env : name \notin in.environ
        THEN SiteResult("failed", FALSE, 1, v[2], v[3], v[4])
        ELSE IF in.timeout THEN SiteResult("failed", FALSE, 124, v[2], v[3], v[4])
        ELSE IF in.returncode # 0
        THEN SiteResult("failed", FALSE, in.returncode, v[2], v[3], v[4])
        ELSE IF ~v[1] THEN SiteResult("failed", FALSE, 0, v[2], v[3], v[4])
        ELSE IF ~v[2] THEN SiteResult("failed", FALSE, 0, v[2], v[3], v[4])
        ELSE IF v[3] = 0 THEN SiteResult("warning", TRUE, 0, v[2], v[3], v[4])
        ELSE SiteResult("ok", FALSE, 0, v[2], v[3], v[4])

\* run_site; in.required_env / in.environ: the variables the site needs / that
\* are set, in.timeout: the script ran into the timeout, in.returncode: its
\* exit code otherwise
run_site(in, c, date_col) ==
    IF \E name \in in.required_env : name \notin in.environ
    THEN SiteResult("failed", FALSE, 1, FALSE, 0, 0)
    ELSE IF in.timeout THEN SiteResult("failed", FALSE, 124, FALSE, 0, 0)
    ELSE IF in.returncode # 0
    THEN SiteResult("failed", FALSE, in.returncode, FALSE, 0, 0)
    ELSE LET v == validate_site_csv(c, date_col)
         IN  IF ~v[1] THEN SiteResult("failed", FALSE, 0, v[2], v[3], v[4])
             ELSE IF ~v[2] THEN SiteResult("failed", FALSE, 0, v[2], v[3], v[4])
             ELSE IF v[3] = 0 THEN SiteResult("warning", TRUE, 0, v[2], v[3], v[4])
             ELSE SiteResult("ok", FALSE, 0, v[2], v[3], v[4])

NoCsv == [exists |-> FALSE, headers |-> <<>>, rows |-> <<>>]

HeaderSeqs ==
    {<<HotelCol, AvgCol>>, <<HotelCol, AvgCol, D1>>, <<HotelCol, AvgCol, D2>>,
     <<HotelCol, AvgCol, PadD1>>, <<HotelCol, AvgCol, D2, D1>>}

RECURSIVE SeqsUpTo(_, _)
SeqsUpTo(S, n) ==
    IF n = 0 THEN {<<>>}
    ELSE SeqsUpTo(S, n - 1)
         \cup {Append(q, x) : q \in {r \in SeqsUpTo(S, n - 1) : Len(r) = n - 1}, x \in S}

\* rows under a header: hotel and average filled in, the date fields blank,
\* spaces, a number, or cut off
CsvRows(hs) == {<<HotelA, Txt45>> \o rest : rest \in SeqsUpTo(FieldTexts, Len(hs) - 2)}

CsvFiles(maxRows) ==
    {NoCsv} \cup UNION {{[exists |-> TRUE, headers |-> hs, rows |-> rs] :
                            rs \in SeqsUpTo(CsvRows(hs), maxRows)} : hs \in HeaderSeqs}

RunInputs ==
    {[required_env |-> re, environ |-> ev, timeout |-> to, returncode |-> rc] :
        re \in {{}, {"TRIPADVISOR_API_KEY"}}, ev \in SUBSET {"TRIPADVISOR_API_KEY"},
        to \in BOOLEAN, rc \in {0, 1, 2}}

NoResult == SiteResult("none", FALSE, 0, FALSE, 0, 0)

InitRun ==
    /\ csv \in CsvFiles(MaxCsvRows)
    /\ target = D1
    /\ run_in \in RunInputs
    /\ rpc = "start"
    /\ result = NoResult
    /\ LedgerIdle
    /\ ExtractIdle
    /\ TripIdle /\ TextIdle /\ SourcesIdle /\ MainIdle /\ FetchIdle

RunSite ==
    /\ rpc = "start"
    /\ result' = run_site(run_in, csv, target)
    /\ rpc' = "returned"
    /\ UNCHANGED <<csv, target, run_in, ledgerVars, extractVars, tripVars, textVars, sourceVars, mainVars, fetchVars>>

NextRun == RunSite

SpecRun == InitRun /\ [][NextRun]_vars

-----------------------------------------------------------------------------
(* Two overlapping cycles on the same ledger file *)

InitOverlap ==
    InitLedger({1, 2}, {NoFile, OldFile}) /\ ExtractIdle /\ RunIdle /\ TripIdle /\ TextIdle /\ SourcesIdle /\ MainIdle /\ FetchIdle

NextOverlap ==
    \E p \in {1, 2} :
        \/ StartScraper(p, Dates)
        \/ StartManual(p, Dates)
        \/ Load(p)
        \/ Scrape(p)
        \/ Save(p)

SpecOverlap == InitOverlap /\ [][NextOverlap]_vars

-----------------------------------------------------------------------------
(* The sequential ledger specification: one cycle at a time *)

Init ==
    /\ InitLedger({1}, {NoFile, NoHotelFile, OldFile, DupFile})
    /\ ExtractIdle /\ RunIdle /\ TripIdle /\ TextIdle /\ SourcesIdle /\ MainIdle /\ FetchIdle

Next ==
    \/ LoadSource(1)
    \/ StartScraper(1, RunDates)
    \/ StartManual(1, Dates)
    \/ Load(1)
    \/ Scrape(1)
    \/ Save(1)
    \/ Exit(1)

Spec == Init /\ [][Next]_vars

-----------------------------------------------------------------------------
(* Cycles on a ledger that carries columns which are no date columns *)

Note == <<"N", "o", "t", "e">>

\* a ledger edited by hand: a column of numbers under a header with a blank
\* in front of the date, one under "Note", and an average nobody recomputed
NotesFile ==
    [exists |-> TRUE, hotelCol |-> TRUE, cols |-> <<AvgCol, <<" ">> \o D1, Note, D0>>,
     rows |-> <<[name |-> HotelA,
                 cells |-> (AvgCol :> Num(860)) @@ (<<" ">> \o D1 :> Num(1000))
                              @@ (Note :> Num(200)) @@ (D0 :> Num(450))],
                [name |-> HotelB,
                 cells |-> (AvgCol :> Num(860)) @@ (<<" ">> \o D1 :> Num(860))
                              @@ (Note :> Num(200)) @@ (D0 :> Null)]>>]

InitNotes ==
    /\ InitLedger({1}, {NotesFile})
    /\ ExtractIdle /\ RunIdle /\ TripIdle /\ TextIdle /\ SourcesIdle /\ MainIdle /\ FetchIdle

SpecNotes == InitNotes /\ [][Next]_vars

-----------------------------------------------------------------------------
(* A ledger written with DataFrame.to_csv and read back with ensure_csv *)

MaxTripCols == 2

DigitChar(i) == <<"0", "1", "2", "3", "4", "5", "6", "7", "8", "9">>[i + 1]
DigitVal(ch) == CHOOSE i \in 0..9 : DigitChar(i) = ch

RECURSIVE DigitsOf(_)
DigitsOf(k) ==
    IF k < 10 THEN <<DigitChar(k)>>
    ELSE DigitsOf(k \div 10) \o <<DigitChar(k % 10)>>

RECURSIVE IntOf(_)
IntOf(ds) ==
    IF ds = <<>> THEN 0
    ELSE IntOf(SubSeq(ds, 1, Len(ds) - 1)) * 10 + DigitVal(ds[Len(ds)])

\* variant: one decimal is written, as the console output does
FormatFloat_one_decimal(c) ==
    IF IsNull(c) THEN <<>>
    ELSE DigitsOf(c[1] \div 100) \o <<".", DigitChar((c[1] % 100) \div 10)>>

\* to_csv's text for a cell holding hundredths: NaN is the empty field, a
\* float its shortest repr ("4.5", "10.0", "5.87")
FormatFloat(c) ==
    IF IsNull(c) THEN <<>>
    ELSE DigitsOf(c[1] \div 100) \o <<".">>
         \o (IF c[1] % 10 = 0 THEN <<DigitChar((c[1] % 100) \div 10)>>
             ELSE <<DigitChar((c[1] % 100) \div 10), DigitChar(c[1] % 10)>>)

\* read_csv's value for a numeric field: the empty field is NaN
ParseFloat(text) ==
    IF text = <<>> THEN Null
    ELSE LET dots == {k \in 1..Len(text) : text[k] = "."}
         IN  IF dots = {} THEN Num(IntOf(text) * 100)
             ELSE LET k == CHOOSE x \in dots : TRUE
                      frac == SubSeq(text, k + 1, Len(text))
                  IN  Num(IntOf(SubSeq(text, 1, k - 1)) * 100
                          + (IF Len(frac) >= 1 THEN DigitVal(frac[1]) * 10 ELSE 0)
                          + (IF Len(frac) >= 2 THEN DigitVal(frac[2]) ELSE 0))

\* df.to_csv(path, sep=";", index_label="Hotel"): the index goes first
to_csv_text(t) ==
    [exists |-> TRUE,
     headers |-> <<HotelCol>> \o t.cols,
     rows |-> [i \in 1..Len(t.rows) |->
                 <<t.rows[i].name>>
                 \o [k \in 1..Len(t.cols) |-> FormatFloat(t.rows[i].cells[t.cols[k]])]]]

\* the file as pd.read_csv(path, sep=";", index_col="Hotel") sees it
FileOf(c) ==
    LET hs == c.headers
        data == SelectSeq([k \in 1..Len(hs) |-> k], LAMBDA k : hs[k] # HotelCol)
    IN  [exists |-> c.exists,
         hotelCol |-> HotelCol \in Range(hs),
         cols |-> [j \in 1..Len(data) |-> hs[data[j]]],
         rows |-> IF HotelCol \notin Range(hs) THEN <<>>
                  ELSE [i \in 1..Len(c.rows) |->
                          [name |-> RowGet(hs, c.rows[i], HotelCol),
                           cells |-> [x \in {hs[data[j]] : j \in 1..Len(data)} |->
                                        ParseFloat(RowGet(hs, c.rows[i], x))]]]]

\* the columns and hotel rows of the frames that are saved
TripCols == <<AvgCol, D1, D2, D0>>
TripNames == {Hotels, <<HotelB, PaddedA, HotelA>>}
TripValues == {Null, Num(450), Num(1000), Num(587)}

\* the frames a scraper can hold at its to_csv: every known hotel has a row,
\* the average column is there
FrameCols(n) == SubSeq(TripCols, 1, n)
FrameCells(n, ns) == [1..Len(ns) -> [Range(FrameCols(n)) -> TripValues]]
Frame(n, ns, m) ==
    [cols |-> FrameCols(n),
     rows |-> [i \in 1..Len(ns) |-> [name |-> ns[i], cells |-> m[i]]]]

InitTrip ==
    /\ \E n \in 1..MaxTripCols, ns \in TripNames :
          \E m \in FrameCells(n, ns) : mem = Frame(n, ns, m)
    /\ disk = [exists |-> FALSE, headers |-> <<>>, rows |-> <<>>]
    /\ back = EmptyDf
    /\ tpc = "start"
    /\ LedgerIdle
    /\ ExtractIdle
    /\ RunIdle
    /\ TextIdle /\ SourcesIdle /\ MainIdle /\ FetchIdle

\* df.to_csv(args.csv, sep=args.sep, index_label="Hotel")
SaveCsv ==
    /\ tpc = "start"
    /\ disk' = to_csv_text(mem)
    /\ tpc' = "saved"
    /\ UNCHANGED <<mem, back, ledgerVars, extractVars, runVars, textVars, sourceVars, mainVars, fetchVars>>

\* df = ensure_csv(args.csv, args.sep, hotels) of the next run
LoadCsv ==
    /\ tpc = "saved"
    /\ back' = ensure_csv(FileOf(disk))
    /\ tpc' = "loaded"
    /\ UNCHANGED <<mem, disk, ledgerVars, extractVars, runVars, textVars, sourceVars, mainVars, fetchVars>>

NextTrip == SaveCsv \/ LoadCsv

SpecTrip == InitTrip /\ [][NextTrip]_vars

-----------------------------------------------------------------------------
(* Scores as the pages write them (text level)                             *)
(*                                                                         *)
(* The extractors find a score with regular expressions and float().  Here *)
(* a page shows one number, with a period or a comma in front of its       *)
(* decimals, in one of the wordings the patterns are made for; the         *)
(* patterns are matched on the characters.  A match is given in hundredths *)
(* (-1: no match, or a text float() rejects), which is what the fields     *)
(* text, divs and fields of a payload hold.                                *)
(***************************************************************************)

OutOf10 == <<"o", "u", "t", " ", "o", "f">>
Slash10 == <<"/", "1", "0">>
GuestRating == <<"g", "u", "e", "s", "t", " ", "r", "a", "t", "i", "n", "g">>
RatingValueKey == <<"\"", "r", "a", "t", "i", "n", "g", "V", "a", "l", "u", "e", "\"">>
\* guest rating[^0-9]{0,30}
GuestGap == 30

\* last position of the longest run of characters of S that starts at p
\* (p - 1: no such character at p)
RECURSIVE RunEnd(_, _, _)
RunEnd(txt, p, S) ==
    IF p <= Len(txt) /\ txt[p] \in S THEN RunEnd(txt, p + 1, S) ELSE p - 1

\* the same for the characters that are no digits
RECURSIVE NonDigitRunEnd(_, _)
NonDigitRunEnd(txt, p) ==
    IF p <= Len(txt) /\ txt[p] \notin Digits THEN NonDigitRunEnd(txt, p + 1) ELSE p - 1

StartsAt(txt, p, lit) ==
    /\ p >= 1
    /\ p + Len(lit) - 1 <= Len(txt)
    /\ SubSeq(txt, p, p + Len(lit) - 1) = lit

\* \d+(?:\.\d+)? at position i, greedy: the digits and, when a period and a
\* digit follow, the period and the digits behind it
NumberEnd(txt, i) ==
    LET j == RunEnd(txt, i, Digits)
    IN  IF j + 2 <= Len(txt) /\ txt[j + 1] = "." /\ txt[j + 2] \in Digits
        THEN RunEnd(txt, j + 2, Digits)
        ELSE j

\* where the group can end for the rest of the pattern to be tried: with
\* the decimals first, then without (fewer digits leave a digit in front
\* of the rest, which no pattern here accepts)
NumberEnds(txt, i) ==
    IF i <= Len(txt) /\ txt[i] \in Digits
    THEN <<NumberEnd(txt, i), RunEnd(txt, i, Digits)>>
    ELSE <<>>

\* float(text) of a number text, in hundredths; -1: ValueError
PyFloat(text) ==
    IF /\ \A k \in 1..Len(text) : text[k] \in Digits \/ text[k] = "."
       /\ Cardinality({k \in 1..Len(text) : text[k] = "."}) <= 1
       /\ \E k \in 1..Len(text) : text[k] \in Digits
    THEN ParseFloat(text)[1]
    ELSE -1

\* str.replace(",", ".")
ReplaceComma(text) == [k \in 1..Len(text) |-> IF text[k] = "," THEN "." ELSE text[k]]

\* \s+out of\s+10 at position p
OutOf10At(txt, p) ==
    LET q == RunEnd(txt, p, {" "})
        r == RunEnd(txt, q + 1 + Len(OutOf10), {" "})
    IN  /\ q >= p
        /\ StartsAt(txt, q + 1, OutOf10)
        /\ r >= q + 1 + Len(OutOf10)
        /\ StartsAt(txt, r + 1, <<"1", "0">>)

\* re.search(r"(\d+(?:\.\d+)?)\s+out of\s+10", page_text): the leftmost match
SearchOutOf10(txt) ==
    LET ok(i) == \E k \in 1..Len(NumberEnds(txt, i)) :
                     OutOf10At(txt, NumberEnds(txt, i)[k] + 1)
        starts == {i \in 1..Len(txt) : ok(i)}
    IN  IF starts = {} THEN -1
        ELSE LET i == CHOOSE x \in starts : \A y \in starts : x <= y
                 e == IF OutOf10At(txt, NumberEnds(txt, i)[1] + 1)
                      THEN NumberEnds(txt, i)[1] ELSE NumberEnds(txt, i)[2]
             IN  PyFloat(SubSeq(txt, i, e))

\* re.search(r"(\d+(?:\.\d+)?)/10", page_text)
SearchSlash10(txt) ==
    LET ok(i) == \E k \in 1..Len(NumberEnds(txt, i)) :
                     StartsAt(txt, NumberEnds(txt, i)[k] + 1, Slash10)
        starts == {i \in 1..Len(txt) : ok(i)}
    IN  IF starts = {} THEN -1
        ELSE LET i == CHOOSE x \in starts : \A y \in starts : x <= y
                 e == IF StartsAt(txt, NumberEnds(txt, i)[1] + 1, Slash10)
                      THEN NumberEnds(txt, i)[1] ELSE NumberEnds(txt, i)[2]
             IN  PyFloat(SubSeq(txt, i, e))

\* re.search(r"guest rating[^0-9]{0,30}(\d+(?:\.\d+)?)", page_text)
SearchGuestRating(txt) ==
    LET first(i) == NonDigitRunEnd(txt, i + Len(GuestRating)) + 1
        ok(i) == /\ StartsAt(txt, i, GuestRating)
                 /\ first(i) - (i + Len(GuestRating)) <= GuestGap
                 /\ first(i) <= Len(txt)
        starts == {i \in 1..Len(txt) : ok(i)}
    IN  IF starts = {} THEN -1
        ELSE LET i == CHOOSE x \in starts : \A y \in starts : x <= y
             IN  PyFloat(SubSeq(txt, first(i), NumberEnd(txt, first(i))))

\* re.finditer(r'"ratingValue"\s*:\s*"?(?P<score>\d+(?:\.\d+)?)"?', html):
\* the score of the first occurrence
SearchRatingValue(txt) ==
    LET num(i) == LET a == RunEnd(txt, i + Len(RatingValueKey), {" "}) + 1
                      b == RunEnd(txt, a + 1, {" "}) + 1
                  IN  IF b <= Len(txt) /\ txt[b] = "\"" /\ b + 1 <= Len(txt)
                         /\ txt[b + 1] \in Digits
                      THEN b + 1 ELSE b
        ok(i) == /\ StartsAt(txt, i, RatingValueKey)
                 /\ StartsAt(txt, RunEnd(txt, i + Len(RatingValueKey), {" "}) + 1, <<":">>)
                 /\ num(i) <= Len(txt)
                 /\ txt[num(i)] \in Digits
        starts == {i \in 1..Len(txt) : ok(i)}
    IN  IF starts = {} THEN -1
        ELSE LET i == CHOOSE x \in starts : \A y \in starts : x <= y
             IN  PyFloat(SubSeq(txt, num(i), NumberEnd(txt, num(i))))

\* re.search(r"(\d+[.,]\d)\s*/\s*6", text); raw = m.group(1).replace(",", ".")
SearchOf6(txt) ==
    LET e(i) == RunEnd(txt, i, Digits) + 2
        slash(i) == RunEnd(txt, e(i) + 1, {" "}) + 1
        six(i) == RunEnd(txt, slash(i) + 1, {" "}) + 1
        ok(i) == /\ txt[i] \in Digits
                 /\ e(i) <= Len(txt)
                 /\ txt[e(i) - 1] \in {".", ","}
                 /\ txt[e(i)] \in Digits
                 /\ StartsAt(txt, slash(i), <<"/">>)
                 /\ StartsAt(txt, six(i), <<"6">>)
        starts == {i \in 1..Len(txt) : ok(i)}
    IN  IF starts = {} THEN -1
        ELSE LET i == CHOOSE x \in starts : \A y \in starts : x <= y
             IN  PyFloat(ReplaceComma(SubSeq(txt, i, e(i))))

\* the three patterns of _extract_textual_score on the page text
PageHits(txt) == <<SearchOutOf10(txt), SearchSlash10(txt), SearchGuestRating(txt)>>

\* the page of an Expedia hotel whose visible text, score div and inline
\* script all read txt
PageOfText(txt) ==
    [fields |-> IF SearchRatingValue(txt) = -1 THEN <<>>
                ELSE <<[score |-> SearchRatingValue(txt), gap |-> 0,
                        key |-> "ratingValue", best |-> 0, review |-> FALSE,
                        star |-> FALSE, form |-> "raw"]>>,
     section |-> FALSE,
     divs |-> <<[text |-> PyFloat(txt), inReviews |-> FALSE]>>,
     text |-> PageHits(txt)]

\* what HolidayCheck's page and Booking's JSON-LD answer when they read txt
OutcomeOf(v) == IF v = -1 THEN [kind |-> "nomatch", v |-> 0] ELSE [kind |-> "value", v |-> v]

\* the number as written, and the wordings
NumberText(sh) ==
    DigitsOf(sh.whole) \o (IF sh.frac = <<>> THEN <<>> ELSE <<sh.sep>> \o sh.frac)

Render(sh) ==
    CASE sh.form = "out_of" -> NumberText(sh) \o <<" ">> \o OutOf10 \o <<" ", "1", "0">>
      [] sh.form = "slash" -> NumberText(sh) \o Slash10
      [] sh.form = "guest" -> GuestRating \o <<" ">> \o NumberText(sh)
      [] sh.form = "of6" -> NumberText(sh) \o <<" ", "/", " ", "6">>
      [] sh.form = "bare" -> NumberText(sh)
      [] sh.form = "json" -> RatingValueKey \o <<":", "\"">> \o NumberText(sh) \o <<"\"">>

Extractors == {"textual", "div", "embedded", "holidaycheck", "booking"}

\* what the extractor returns for the page
Reading(kind, sh) ==
    CASE kind = "textual" -> _extract_textual_score(PageOfText(Render(sh)))
      [] kind = "div" -> _extract_semantic_div_score(PageOfText(Render(sh)).divs)
      [] kind = "embedded" -> _extract_embedded_json_score(PageOfText(Render(sh)))
      [] kind = "holidaycheck" ->
           get_holidaycheck_score(OutcomeOf(SearchOf6(Render(sh)))).score
      [] kind = "booking" ->
           \* val = str(agg.get("ratingValue")); float(val.replace(",", "."))
           fetch_booking_rating(
               [k \in 1..(BOOKING_DEFAULT_RETRIES + 1) |->
                   OutcomeOf(PyFloat(ReplaceComma(NumberText(sh))))],
               BOOKING_DEFAULT_RETRIES)

Shown ==
    {[whole |-> w, frac |-> <<>>, sep |-> ".", form |-> f] :
        w \in {4, 8, 11}, f \in {"out_of", "slash", "guest", "of6", "bare", "json"}}
    \cup {[whole |-> w, frac |-> <<d>>, sep |-> s, form |-> f] :
        w \in {4, 8, 11}, d \in {"5", "6"}, s \in {".", ","},
        f \in {"out_of", "slash", "guest", "of6", "bare", "json"}}

InitText ==
    /\ shown \in Shown
    /\ found = Null
    /\ reader = "start"
    /\ LedgerIdle /\ ExtractIdle /\ RunIdle /\ TripIdle /\ SourcesIdle /\ MainIdle /\ FetchIdle

\* _extract_textual_score(soup.get_text(" ", strip=True))
ReadTextual ==
    /\ reader = "start"
    /\ found' = Reading("textual", shown)
    /\ reader' = "textual"
    /\ UNCHANGED <<shown, ledgerVars, extractVars, runVars, tripVars, sourceVars, mainVars, fetchVars>>

\* _extract_semantic_div_score(soup)
ReadDiv ==
    /\ reader = "start"
    /\ found' = Reading("div", shown)
    /\ reader' = "div"
    /\ UNCHANGED <<shown, ledgerVars, extractVars, runVars, tripVars, sourceVars, mainVars, fetchVars>>

\* _extract_embedded_json_score(html)
ReadEmbedded ==
    /\ reader = "start"
    /\ found' = Reading("embedded", shown)
    /\ reader' = "embedded"
    /\ UNCHANGED <<shown, ledgerVars, extractVars, runVars, tripVars, sourceVars, mainVars, fetchVars>>

\* get_holidaycheck_score(url)
ReadHolidayCheck ==
    /\ reader = "start"
    /\ found' = Reading("holidaycheck", shown)
    /\ reader' = "holidaycheck"
    /\ UNCHANGED <<shown, ledgerVars, extractVars, runVars, tripVars, sourceVars, mainVars, fetchVars>>

\* fetch_booking_rating(url, session) on a JSON-LD block with the number as
\* its ratingValue
ReadBooking ==
    /\ reader = "start"
    /\ shown.form = "json"
    /\ found' = Reading("booking", shown)
    /\ reader' = "booking"
    /\ UNCHANGED <<shown, ledgerVars, extractVars, runVars, tripVars, sourceVars, mainVars, fetchVars>>

NextText == ReadTextual \/ ReadDiv \/ ReadEmbedded \/ ReadHolidayCheck \/ ReadBooking

SpecText == InitText /\ [][NextText]_vars

-----------------------------------------------------------------------------
(* The ledgers of all sources: cycles of different sources interleave      *)
(*                                                                         *)
(* Every source runs at most one cycle (a scraper run or a manual          *)
(* override); the steps of the cycles interleave freely.                   *)
(***************************************************************************)

MaxCycles == 2

\* variant: every source is configured with Booking's file
CsvPath_shared(s) == "booking_scores.csv"

\* SITE_CONFIGS[...].csv_path, SOURCES[...], DEFAULT_CSV: the file in data/
CsvPath(s) ==
    CASE s = "Booking" -> "booking_scores.csv"
      [] s = "Tripadvisor" -> "tripadvisor_scores.csv"
      [] s = "Google" -> "google_scores.csv"
      [] s = "Expedia" -> "expedia_scores.csv"
      [] s = "HolidayCheck" -> "holidaycheck_scores.csv"

Paths ==
    {"booking_scores.csv", "tripadvisor_scores.csv", "google_scores.csv",
     "expedia_scores.csv", "holidaycheck_scores.csv"}

\* what the sites answer in these runs
FewOutcomes == {[kind |-> "error", v |-> 0], [kind |-> "value", v |-> 860]}

NoCycle == [pc |-> "idle", args |-> NoArgs, df |-> EmptyDf, new_scores |-> NoScores]

InitSources ==
    /\ \E f \in {NoFile, OldFile} : ledger = [p \in Paths |-> f]
    /\ ledger0 = ledger
    /\ cyc = [s \in Sites |-> NoCycle]
    /\ started = 0
    /\ LedgerIdle /\ ExtractIdle /\ RunIdle /\ TripIdle /\ TextIdle /\ MainIdle /\ FetchIdle

\* a scraper's main() up to os.path.exists(csv_path) in ensure_csv
SourceStartScraper(s) ==
    /\ cyc[s].pc = "idle"
    /\ started < MaxCycles
    /\ \E api_key \in BOOLEAN :
          /\ api_key \/ NeedsApiKey(s)
          /\ cyc' = [cyc EXCEPT ![s].args = [kind |-> "scraper", date |-> D1,
                                             hotel |-> <<>>, score |-> Null],
                                ![s].pc = IF ~api_key THEN "arg_failed"
                                          ELSE IF ledger[CsvPath(s)].exists
                                          THEN "check_true" ELSE "check_false"]
    /\ started' = started + 1
    /\ UNCHANGED <<ledger, ledger0>>
    /\ UNCHANGED <<ledgerVars, extractVars, runVars, tripVars, textVars, mainVars, fetchVars>>

\* set_manual_score(source, ...) up to csv_path.exists()
SourceStartManual(s) ==
    /\ cyc[s].pc = "idle"
    /\ started < MaxCycles
    /\ cyc' = [cyc EXCEPT ![s].args = [kind |-> "manual", date |-> D1,
                                       hotel |-> HotelA, score |-> Num(450)],
                          ![s].pc = IF ledger[CsvPath(s)].exists
                                    THEN "check_true" ELSE "load_failed"]
    /\ started' = started + 1
    /\ UNCHANGED <<ledger, ledger0>>
    /\ UNCHANGED <<ledgerVars, extractVars, runVars, tripVars, textVars, mainVars, fetchVars>>

\* ensure_csv after the exists test, resp. set_manual_score from read_csv to
\* update_average
SourceLoad(s) ==
    /\ cyc[s].pc \in {"check_true", "check_false"}
    /\ IF cyc[s].pc = "check_false"
       THEN /\ cyc' = [cyc EXCEPT ![s].df = SeedDf, ![s].pc = "loaded"]
            /\ ledger' = [ledger EXCEPT ![CsvPath(s)] = to_csv(SeedDf)]
       ELSE IF ReadCsvRaises(ledger[CsvPath(s)])
       THEN /\ cyc' = [cyc EXCEPT ![s].pc = "load_failed"]
            /\ UNCHANGED ledger
       ELSE /\ cyc' = [cyc EXCEPT
                ![s].df = IF cyc[s].args.kind = "scraper"
                          THEN ensure_csv(ledger[CsvPath(s)])
                          ELSE set_manual_score(ledger[CsvPath(s)], cyc[s].args.hotel,
                                                cyc[s].args.date, cyc[s].args.score),
                ![s].pc = IF cyc[s].args.kind = "scraper" THEN "loaded" ELSE "ready"]
            /\ UNCHANGED ledger
    /\ UNCHANGED <<ledger0, started>>
    /\ UNCHANGED <<ledgerVars, extractVars, runVars, tripVars, textVars, mainVars, fetchVars>>

\* main()'s loop over the hotels
SourceScrape(s) ==
    /\ cyc[s].pc = "loaded"
    /\ \E os \in [HotelSet -> FewOutcomes] :
          cyc' = [cyc EXCEPT ![s].new_scores = LoopScores(s, os),
                             ![s].pc = IF FirstRaise(s, os) # 0
                                       THEN "fetch_failed" ELSE "ready"]
    /\ UNCHANGED <<ledger, ledger0, started>>
    /\ UNCHANGED <<ledgerVars, extractVars, runVars, tripVars, textVars, mainVars, fetchVars>>

\* "Write column & update average" and to_csv, resp. set_manual_score's to_csv
SourceSave(s) ==
    /\ cyc[s].pc = "ready"
    /\ LET out == IF cyc[s].args.kind = "scraper"
                  THEN SiteUpdateAverage(s,
                           WriteColumn(cyc[s].df, cyc[s].args.date, cyc[s].new_scores))
                  ELSE cyc[s].df
       IN  /\ cyc' = [cyc EXCEPT ![s].df = out, ![s].pc = "done"]
           /\ ledger' = [ledger EXCEPT ![CsvPath(s)] = to_csv(out)]
    /\ UNCHANGED <<ledger0, started>>
    /\ UNCHANGED <<ledgerVars, extractVars, runVars, tripVars, textVars, mainVars, fetchVars>>

NextSources ==
    \E s \in Sites :
        \/ SourceStartScraper(s)
        \/ SourceStartManual(s)
        \/ SourceLoad(s)
        \/ SourceScrape(s)
        \/ SourceSave(s)

SpecSources == InitSources /\ [][NextSources]_vars

-----------------------------------------------------------------------------
(* The orchestrator's main(): the sites are run one after the other         *)
(***************************************************************************)

MaxSites == 3

LowerChars == <<"a", "b", "c", "d", "e", "f", "g", "h", "i", "j", "k", "l", "m", "n", "o", "p", "q", "r", "s", "t", "u", "v", "w", "x", "y", "z">>
UpperChars == <<"A", "B", "C", "D", "E", "F", "G", "H", "I", "J", "K", "L", "M", "N", "O", "P", "Q", "R", "S", "T", "U", "V", "W", "X", "Y", "Z">>

\* str.upper() for the letters a..z
Upper(ch) ==
    IF \E i \in 1..Len(LowerChars) : LowerChars[i] = ch
    THEN UpperChars[CHOOSE i \in 1..Len(LowerChars) : LowerChars[i] = ch]
    ELSE ch
UpperStr(s) == [k \in 1..Len(s) |-> Upper(s[k])]

BOOKING == <<"B", "O", "O", "K", "I", "N", "G">>
TRIPADVISOR == <<"T", "R", "I", "P", "A", "D", "V", "I", "S", "O", "R">>
GOOGLE == <<"G", "O", "O", "G", "L", "E">>
EXPEDIA == <<"E", "X", "P", "E", "D", "I", "A">>
HOLIDAYCHECK == <<"H", "O", "L", "I", "D", "A", "Y", "C", "H", "E", "C", "K">>

\* the keys of SITE_CONFIGS, and the required_env of each
KnownSites == {BOOKING, TRIPADVISOR, GOOGLE, EXPEDIA, HOLIDAYCHECK}
RequiredEnv(s) == IF s = TRIPADVISOR THEN {"TRIPADVISOR_API_KEY"} ELSE {}

\* variant: the entries are not trimmed
normalize_sites_untrimmed(raw_sites) ==
    LET kept == SelectSeq(raw_sites, LAMBDA s : s # <<>>)
    IN  [k \in 1..Len(kept) |-> UpperStr(kept[k])]

\* [site.strip().upper() for site in raw_sites if site.strip()]
normalize_sites(raw_sites) ==
    LET kept == SelectSeq(raw_sites, LAMBDA s : Strip(s) # <<>>)
    IN  [k \in 1..Len(kept) |-> UpperStr(Strip(kept[k]))]

\* variant: a warning always counts
ExitCode_warning_always(res, fail_on_warning) ==
    IF \E i \in 1..Len(res) : res[i].r.status = "failed" THEN 1
    ELSE IF \E i \in 1..Len(res) : res[i].r.warning THEN 2
    ELSE 0

\* "if failed: return 1; if warned and args.fail_on_warning: return 2; return 0"
ExitCode(res, fail_on_warning) ==
    IF \E i \in 1..Len(res) : res[i].r.status = "failed" THEN 1
    ELSE IF (\E i \in 1..Len(res) : res[i].r.warning) /\ fail_on_warning THEN 2
    ELSE 0

\* variant: the loop is left at the first failed site
AfterSite_stop_on_failure(i, r) ==
    IF r.status = "failed" THEN Len(selected) + 1 ELSE i + 1

\* "for site in selected_sites: ... results.append(result)": on to the next
AfterSite(i, r) == i + 1

\* what --sites can hold
RawSites ==
    {<<" ", "b", "o", "o", "k", "i", "n", "g", " ">>, <<"T", "r", "i", "p", "A", "d", "v", "i", "s", "o", "r">>, <<>>, <<" ", " ">>, <<"n", "o", "p", "e">>}

\* the CSV a site script leaves: none, the date column without a score, the
\* date column with a score
MainCsvs ==
    {NoCsv,
     [exists |-> TRUE, headers |-> <<HotelCol, AvgCol, D1>>,
      rows |-> <<<<HotelA, <<>>, <<>>>>>>],
     [exists |-> TRUE, headers |-> <<HotelCol, AvgCol, D1>>,
      rows |-> <<<<HotelA, Txt45, Txt45>>>>]}

InitMain ==
    /\ \E raw \in SeqsUpTo(RawSites, MaxSites), fow \in BOOLEAN :
          argv = [sites |-> raw, fail_on_warning |-> fow]
    /\ environ \in SUBSET {"TRIPADVISOR_API_KEY"}
    /\ sites = <<>>
    /\ selected = <<>>
    /\ results = <<>>
    /\ loop_i = 0
    /\ running = {}
    /\ mpc = "start"
    /\ exit_code = 0
    /\ LedgerIdle /\ ExtractIdle /\ RunIdle /\ TripIdle /\ TextIdle /\ SourcesIdle /\ FetchIdle

\* main() up to the loop: normalize_sites, the unknown sites are dropped,
\* "No valid sites selected." returns 1
ParseSites ==
    /\ mpc = "start"
    /\ LET n == normalize_sites(argv.sites)
           sel == SelectSeq(n, LAMBDA s : s \in KnownSites)
       IN  /\ sites' = n
           /\ selected' = sel
           /\ IF sel = <<>>
              THEN /\ mpc' = "exited"
                   /\ exit_code' = 1
                   /\ loop_i' = 0
              ELSE /\ mpc' = "loop"
                   /\ loop_i' = 1
                   /\ UNCHANGED exit_code
    /\ UNCHANGED <<argv, environ, results, running>>
    /\ UNCHANGED <<ledgerVars, extractVars, runVars, tripVars, textVars, sourceVars, fetchVars>>

\* run_site returns at once: a required environment variable is not set
MissingEnv ==
    /\ mpc = "loop"
    /\ loop_i <= Len(selected)
    /\ running = {}
    /\ ~(RequiredEnv(selected[loop_i]) \subseteq environ)
    /\ \E c \in MainCsvs :
          LET r == run_site([required_env |-> RequiredEnv(selected[loop_i]),
                             environ |-> environ, timeout |-> FALSE,
                             returncode |-> 0], c, D1)
          IN  /\ results' = Append(results, [site |-> selected[loop_i], r |-> r])
              /\ loop_i' = AfterSite(loop_i, r)
    /\ UNCHANGED <<argv, environ, sites, selected, running, mpc, exit_code>>
    /\ UNCHANGED <<ledgerVars, extractVars, runVars, tripVars, textVars, sourceVars, fetchVars>>

\* run_site: subprocess.run(cmd, ...) starts the site script and waits for it
StartScript ==
    /\ mpc = "loop"
    /\ loop_i <= Len(selected)
    /\ running = {}
    /\ RequiredEnv(selected[loop_i]) \subseteq environ
    /\ running' = {loop_i}
    /\ UNCHANGED <<argv, environ, sites, selected, results, loop_i, mpc, exit_code>>
    /\ UNCHANGED <<ledgerVars, extractVars, runVars, tripVars, textVars, sourceVars, fetchVars>>

\* the site script ends or runs into the timeout; run_site validates and returns
EndScript ==
    /\ mpc = "loop"
    /\ loop_i \in running
    /\ \E c \in MainCsvs, to \in BOOLEAN, rc \in {0, 2} :
          LET r == run_site([required_env |-> RequiredEnv(selected[loop_i]),
                             environ |-> environ, timeout |-> to,
                             returncode |-> rc], c, D1)
          IN  /\ results' = Append(results, [site |-> selected[loop_i], r |-> r])
              /\ loop_i' = AfterSite(loop_i, r)
    /\ running' = {}
    /\ UNCHANGED <<argv, environ, sites, selected, mpc, exit_code>>
    /\ UNCHANGED <<ledgerVars, extractVars, runVars, tripVars, textVars, sourceVars, fetchVars>>

\* the summary and main()'s return value
Summary ==
    /\ mpc = "loop"
    /\ loop_i > Len(selected)
    /\ running = {}
    /\ exit_code' = ExitCode(results, argv.fail_on_warning)
    /\ mpc' = "exited"
    /\ UNCHANGED <<argv, environ, sites, selected, results, loop_i, running>>
    /\ UNCHANGED <<ledgerVars, extractVars, runVars, tripVars, textVars, sourceVars, fetchVars>>

NextMain == ParseSites \/ MissingEnv \/ StartScript \/ EndScript \/ Summary

SpecMain == InitMain /\ [][NextMain]_vars

-----------------------------------------------------------------------------
(* Claims about the ledger cycles *)

Done(p) == pc[p] = "done"
ScraperDone(p) == Done(p) /\ args[p].kind = "scraper"

\* the non-null cells of a row in the date columns of the file
PresentDates(f, row) ==
    SelectSeq(f.cols, LAMBDA c : DATE_COL_RE(c) /\ ~IsNull(row.cells[c]))

\* the cell (h, c) of a table: NaN when the row or the column is not there
CellAt(t, h, c) ==
    IF HasCol(t, c) /\ HasRow(t, h)
    THEN (CHOOSE r \in Range(t.rows) : r.name = h).cells[c]
    ELSE Null

\* C1: after a completed scraper run or manual override, every row's
\* 'Average Score' is the mean of the row's non-null date cells rounded to
\* two decimals.
C1_AverageIsRoundedMean ==
    \A p \in DOMAIN pc :
        Done(p) =>
            \A i \in 1..Len(file.rows) :
                LET row == file.rows[i]
                    present == PresentDates(file, row)
                IN  present # <<>> =>
                        row.cells[AvgCol]
                            = Round2(Ratio(SumCells(row, present), Len(present)))

\* C2 as claimed: after a scraper run for date D, the cell (hotel, D) of a
\* hotel whose score is absent holds what it held in the file the run loaded.
C2_AbsentKeepsOldCell ==
    \A p \in DOMAIN pc :
        ScraperDone(p) =>
            \A h \in HotelSet :
                IsNull(new_scores[p][h]) =>
                    CellAt(file, h, args[p].date) = CellAt(loaded[p], h, args[p].date)

\* C2 as amended: a scraper run for date D replaces the whole column D; after
\* the run a row holds the hotel's score when one is present and null
\* otherwise, whatever the cell held before.
C2_ColumnReplaced ==
    \A p \in DOMAIN pc :
        ScraperDone(p) =>
            /\ HasCol(file, args[p].date)
            /\ \A i \in 1..Len(file.rows) :
                  file.rows[i].cells[args[p].date]
                      = IF file.rows[i].name \in HotelSet
                        THEN new_scores[p][file.rows[i].name]
                        ELSE Null

\* a run whose score for a hotel is absent has emptied a cell that held a value
C2_Witness ==
    /\ ScraperDone(1)
    /\ \E h \in HotelSet :
          /\ IsNull(new_scores[1][h])
          /\ ~IsNull(CellAt(loaded[1], h, args[1].date))
          /\ IsNull(CellAt(file, h, args[1].date))

\* C3: a failure while obtaining one hotel's score never aborts the run: the
\* loop over the hotels always completes and the run goes on to save.
C3_FetchFailureIsLocal ==
    \A p \in DOMAIN pc : pc[p] # "fetch_failed"

\* C4: a score outside the source's range is never stored by an automated run.
C4_OutOfRangeNeverStored ==
    \A p \in DOMAIN pc :
        ScraperDone(p) =>
            \A i \in 1..Len(file.rows) :
                LET c == file.rows[i].cells[args[p].date]
                IN  IsNull(c) \/ (c[1] >= 0 /\ c[1] <= SCALE_MAX(site) * c[2])

\* what a cycle writes, computed from what it loaded and its own inputs only
CycleResult(p) ==
    IF args[p].kind = "scraper"
    THEN SiteUpdateAverage(site,
             WriteColumn(IF loaded[p].exists THEN ensure_csv(loaded[p]) ELSE SeedDf,
                         args[p].date, new_scores[p]))
    ELSE set_manual_score(loaded[p], args[p].hotel, args[p].date, args[p].score)

BothDone == \A p \in DOMAIN pc : Done(p)

\* C5: when two cycles on the same file overlap, the file after both saves is
\* the in-memory ledger of the one that saved last, which depends only on what
\* that cycle loaded and on its own scores: nothing is merged in from the file.
C5_LastSaverWins ==
    BothDone =>
        /\ file.exists
        /\ file.cols = df[lastSaver].cols
        /\ file.rows = df[lastSaver].rows
        /\ file.cols = CycleResult(lastSaver).cols
        /\ file.rows = CycleResult(lastSaver).rows

\* the other cycle saved a date column that the final file does not have
C5_Witness ==
    /\ BothDone
    /\ \E q \in DOMAIN pc, c \in Dates :
          /\ q # lastSaver
          /\ HasCol(df[q], c)
          /\ ~IsNull(CellAt(df[q], HotelA, c))
          /\ ~HasCol(file, c)

-----------------------------------------------------------------------------
(* Claims about the Expedia extraction *)

ScoreReturned == xpc \in {"scored", "written"}
Debugged == xpc = "debugged" /\ details.fetch_ok

\* v is the value of an entry of cands that no entry beats in (rank, value)
IsGreatest(cands, v) ==
    \E i \in 1..Len(cands) :
        /\ v = Num(cands[i][2])
        /\ \A j \in 1..Len(cands) :
              \/ cands[j][1] < cands[i][1]
              \/ (cands[j][1] = cands[i][1] /\ cands[j][2] <= cands[i][2])

\* C6: from a non-empty candidate list the strategy returns the value of the
\* candidate that is greatest by rank and, among equal ranks, by value; a
\* single candidate resolves to its own value.
C6_ResolvePicksGreatest ==
    Debugged =>
        /\ JsonldCandidates(payload) # <<>>
               => IsGreatest(JsonldCandidates(payload), details.jsonld_score)
        /\ EmbeddedCandidates(payload) # <<>>
               => IsGreatest(EmbeddedCandidates(payload), details.embedded_json_score)

\* two candidates of equal rank, the smaller value first: the larger is returned
C6_Witness ==
    /\ Debugged
    /\ LET cands == JsonldCandidates(payload)
       IN  /\ Len(cands) = 2
           /\ cands[1][1] = cands[2][1]
           /\ cands[1][2] < cands[2][2]
           /\ details.jsonld_score = Num(cands[2][2])

InRange(v) == v >= 0 /\ v <= EXPEDIA_MAX

\* the candidates of all four strategies in one list; the semantic and the
\* textual strategy carry no rank of their own: rs and rt stand for them
AllCandidates(page, rs, rt) ==
    LET sem == SelectSeq(ReviewsSection(page), LAMBDA d : InRange(d.text))
        txt == SelectSeq(page.text, LAMBDA v : InRange(v))
    IN  JsonldCandidates(page)
        \o [i \in 1..Len(sem) |-> <<rs, sem[i].text>>]
        \o [i \in 1..Len(txt) |-> <<rt, txt[i]>>]
        \o EmbeddedCandidates(page)

\* C7 as claimed: every strategy contributes and the score of a fetched page
\* is the resolution of the union of their candidates, for some ranks of the
\* two strategies that have none.
C7_UnionResolved ==
    (xpc = "scored" /\ html) =>
        \E rs \in -12..12, rt \in -12..12 :
            score = Resolve(AllCandidates(payload, rs, rt))

\* C7 as amended: the strategies are tried in the order structured metadata,
\* score elements of the Reviews section (of the page when there is none),
\* visible text, embedded script; the first that yields an in-range score
\* gives the result and the later ones are not consulted.
C7_FirstStrategyWins ==
    (xpc = "scored" /\ html) =>
        LET j == Resolve(JsonldCandidates(payload))
            s == _extract_semantic_div_score(ReviewsSection(payload))
            t == _extract_textual_score(payload)
            e == Resolve(EmbeddedCandidates(payload))
        IN  /\ ~IsNull(j) => score = j
            /\ (IsNull(j) /\ ~IsNull(s)) => score = s
            /\ (IsNull(j) /\ IsNull(s) /\ ~IsNull(t)) => score = t
            /\ (IsNull(j) /\ IsNull(s) /\ IsNull(t)) => score = e

\* the visible text gave the score although the embedded script holds another
C7_Witness ==
    /\ xpc = "scored" /\ html
    /\ IsNull(Resolve(JsonldCandidates(payload)))
    /\ IsNull(_extract_semantic_div_score(ReviewsSection(payload)))
    /\ ~IsNull(_extract_textual_score(payload))
    /\ score = _extract_textual_score(payload)
    /\ EmbeddedCandidates(payload) # <<>>
    /\ Resolve(EmbeddedCandidates(payload)) # score

\* C8: of two in-range rating fields, one carrying a 10-scale hint and one a
\* 5-scale hint, the structured-metadata and the embedded-script strategy
\* return the 10-hint value, whatever the values and however close the fields.
C8_TenHintBeatsFiveHint ==
    (/\ Debugged
     /\ Len(payload.fields) = 2
     /\ \A i \in 1..2 : /\ payload.fields[i].key = "ratingValue"
                        /\ payload.fields[i].form \in {"ld", "raw"}
                        /\ InRange(payload.fields[i].score)
     /\ {payload.fields[1].best, payload.fields[2].best} = {5, 10})
    => LET ten == CHOOSE f \in Range(payload.fields) : f.best = 10
       IN  /\ details.embedded_json_score = Num(ten.score)
           /\ (\A i \in 1..2 : payload.fields[i].form = "ld")
                  => details.jsonld_score = Num(ten.score)

\* nothing on the page is a number within 0..10 where a strategy looks
NoInRangeCandidate(page) ==
    /\ \A i \in 1..Len(page.fields) : ~InRange(page.fields[i].score)
    /\ \A i \in 1..Len(ReviewsSection(page)) : ~InRange(ReviewsSection(page)[i].text)
    /\ \A i \in 1..Len(page.text) : ~InRange(page.text[i])

\* C9: when the fetch fails or no strategy finds an in-range candidate, the
\* score is None and the cell written for the hotel is null.
C9_NoCandidateGivesNull ==
    (ScoreReturned /\ (~html \/ NoInRangeCandidate(payload))) =>
        /\ score = Null
        /\ xpc = "written" => cell = Null

\* a fetched page with only out-of-range ratings: the cell that held 4.5 is null
C9_Witness ==
    /\ xpc = "written" /\ html
    /\ payload.fields # <<>>
    /\ NoInRangeCandidate(payload)
    /\ cell = Null

-----------------------------------------------------------------------------
(* Claims about the orchestrator *)

\* the scraper was started and exited with code 0
ExitedZero ==
    /\ rpc = "returned"
    /\ run_in.required_env \subseteq run_in.environ
    /\ ~run_in.timeout
    /\ run_in.returncode = 0

\* some data row has a field under the header named c that is not all spaces
HasNonBlank(c) ==
    \E r \in 1..Len(csv.rows), k \in 1..Len(csv.headers) :
        /\ csv.headers[k] = c
        /\ k <= Len(csv.rows[r])
        /\ \E n \in 1..Len(csv.rows[r][k]) : csv.rows[r][k][n] # " "

\* C10: after exit code 0 a site is 'failed' when its file is missing or has
\* no column named exactly the run date, 'warning' when the column is there
\* but no row has a non-blank cell in it, and 'ok' otherwise; the warning
\* flag is set exactly when the status is 'warning'.
C10_Classification ==
    ExitedZero =>
        /\ result.status =
              IF ~csv.exists \/ \A k \in 1..Len(csv.headers) : csv.headers[k] # target
              THEN "failed"
              ELSE IF ~HasNonBlank(target) THEN "warning" ELSE "ok"
        /\ result.warning = (result.status = "warning")

\* the date column is there, a cell in it holds only a space: 'warning'
C10_Witness ==
    /\ ExitedZero
    /\ \E k \in 1..Len(csv.headers) : csv.headers[k] = target
    /\ \E r \in 1..Len(csv.rows), k \in 1..Len(csv.headers) :
          /\ csv.headers[k] = target
          /\ k <= Len(csv.rows[r])
          /\ csv.rows[r][k] = <<" ">>
    /\ result.status = "warning"
    /\ result.warning

\* the data rows whose field under the header named c is not all spaces
NonBlankRows(c) ==
    {r \in 1..Len(csv.rows) :
        \E k \in 1..Len(csv.headers) :
            /\ csv.headers[k] = c
            /\ k <= Len(csv.rows[r])
            /\ \E n \in 1..Len(csv.rows[r][k]) : csv.rows[r][k][n] # " "}

\* C11: validate_site_csv answers (False, False, 0, 0) for a missing file,
\* (True, False, 0, data rows) for a file without the date column, and
\* otherwise (True, True, scored, total) with total the number of data rows
\* and scored the number of rows whose cell under the date column is
\* non-blank after trimming, so scored <= total; run_site reports these counts.
C11_ValidateTuple ==
    rpc = "returned" =>
    LET v == validate_site_csv(csv, target)
    IN  /\ v = IF ~csv.exists THEN <<FALSE, FALSE, 0, 0>>
               ELSE IF \A k \in 1..Len(csv.headers) : csv.headers[k] # target
               THEN <<TRUE, FALSE, 0, Len(csv.rows)>>
               ELSE <<TRUE, TRUE, Cardinality(NonBlankRows(target)), Len(csv.rows)>>
        /\ v[3] <= v[4]
        /\ ExitedZero =>
              /\ result.has_date_column = v[2]
              /\ result.scored_hotels = v[3]
              /\ result.total_hotels = v[4]

\* two data rows under the date column, one with a number and one blank
C11_Witness ==
    /\ ExitedZero
    /\ validate_site_csv(csv, target) = <<TRUE, TRUE, 1, 2>>
    /\ result.scored_hotels = 1
    /\ result.total_hotels = 2

-----------------------------------------------------------------------------
(* Claims about hotel keys *)

Viewed(p) == pc[p] = "viewed" /\ loaded[p].exists /\ loaded[p].hotelCol

\* the first row of the file whose trimmed name is key
FirstSeen(f, key) ==
    f.rows[CHOOSE i \in 1..Len(f.rows) :
              /\ Strip(f.rows[i].name) = key
              /\ \A j \in 1..(i - 1) : Strip(f.rows[j].name) # key]

\* no two rows of the table have names that are equal after trimming
UniqueKeys(t) ==
    \A i \in 1..Len(t.rows), j \in 1..Len(t.rows) :
        Strip(t.rows[i].name) = Strip(t.rows[j].name) => i = j

\* C12: loading a ledger collapses the rows whose names are equal after
\* trimming into one row keyed by the trimmed name, and every cell of that
\* row is the cell of the first of those rows, its null cells included.
C12_FirstSeenRowKept ==
    \A p \in DOMAIN pc :
        Viewed(p) =>
            /\ UniqueKeys(df[p])
            /\ {df[p].rows[i].name : i \in 1..Len(df[p].rows)}
                  = {Strip(loaded[p].rows[i].name) : i \in 1..Len(loaded[p].rows)}
            /\ \A i \in 1..Len(df[p].rows) :
                  df[p].rows[i].cells = FirstSeen(loaded[p], df[p].rows[i].name).cells

\* C13: in every ledger produced by loading a file and in every ledger saved
\* by a scraper run or a manual override, no two rows have names that are
\* equal after trimming.
C13_KeysUnique ==
    \A p \in DOMAIN pc :
        /\ Viewed(p) => UniqueKeys(df[p])
        /\ Done(p) => UniqueKeys(file)

-----------------------------------------------------------------------------
(* Claims about loading and saving *)

\* C14: while the ledger file exists but has no Hotel column, no step of a
\* scraper run or a manual override changes the file, and no run gets past
\* its load: it ends with an error.
C14_NoHotelColumnAborts ==
    [][(file.exists /\ ~file.hotelCol) =>
          /\ file' = file
          /\ \A p \in DOMAIN pc :
                /\ pc'[p] \notin {"check_false", "loaded", "ready", "done", "fetch_failed"}
                /\ pc[p] = "check_true" => pc'[p] \in {"check_true", "load_failed"}]_vars

\* a run has failed at its load and the file is what it was
C14_Witness ==
    /\ pc[1] = "load_failed"
    /\ args[1].kind \in {"scraper", "manual"}
    /\ file = NoHotelFile

ManualDone(p) == Done(p) /\ args[p].kind = "manual"

\* C15: a manual override of a cell leaves the cell equal to the value given,
\* in memory and in the saved file, whatever an earlier override or an
\* automated run had put there, and the row's average is that of the row as
\* it now stands.
C15_OverrideOverwrites ==
    \A p \in DOMAIN pc :
        ManualDone(p) =>
            LET h == Strip(args[p].hotel)
                d == args[p].date
            IN  /\ HasRow(file, h) /\ HasCol(file, d) /\ HasCol(file, AvgCol)
                /\ CellAt(df[p], h, d) = args[p].score
                /\ CellAt(file, h, d) = args[p].score
                /\ \A i \in 1..Len(file.rows) :
                      file.rows[i].name = h =>
                          file.rows[i].cells[AvgCol]
                              = Round2(Ratio(SumCells(file.rows[i],
                                                      PresentDates(file, file.rows[i])),
                                             Len(PresentDates(file, file.rows[i]))))

\* the file loaded held another value in the cell
C15_Witness ==
    /\ ManualDone(1)
    /\ ~IsNull(CellAt(loaded[1], Strip(args[1].hotel), args[1].date))
    /\ CellAt(loaded[1], Strip(args[1].hotel), args[1].date) # args[1].score
    /\ CellAt(file, Strip(args[1].hotel), args[1].date) = args[1].score

WroteLedger(p) == Done(p) /\ lastSaver = p

IsPrefix(a, b) == Len(a) <= Len(b) /\ SubSeq(b, 1, Len(a)) = a

\* C17 as claimed: in every saved ledger the columns behind Hotel are the
\* date columns followed by 'Average Score' as the last column.
C17_AverageLast ==
    \A p \in DOMAIN pc :
        WroteLedger(p) =>
            /\ file.cols # <<>>
            /\ file.cols[Len(file.cols)] = AvgCol
            /\ \A i \in 1..(Len(file.cols) - 1) : DATE_COL_RE(file.cols[i])

\* C17 as amended: a saved ledger has the columns of the file that was loaded
\* in their order, followed by the columns the run had to add: for a scraper
\* run 'Average Score' and then the run's date, for a manual override the date
\* and then 'Average Score'.  A ledger created by a scraper run therefore
\* reads Hotel, Average Score, date.
C17_ColumnsAppended ==
    \A p \in DOMAIN pc :
        WroteLedger(p) =>
            LET old == loaded[p].cols
                add == SelectSeq(IF args[p].kind = "scraper"
                                 THEN <<AvgCol, args[p].date>>
                                 ELSE <<args[p].date, AvgCol>>,
                                 LAMBDA c : c \notin Range(old))
            IN  file.cols = old \o add

\* a run on a ledger that a scraper created: the new date stands behind
\* 'Average Score'
C17_Witness ==
    /\ WroteLedger(1)
    /\ args[1].kind = "scraper"
    /\ Len(file.cols) = 3
    /\ file.cols[1] = AvgCol
    /\ DATE_COL_RE(file.cols[2])
    /\ file.cols[3] = args[1].date

\* C18: saving a ledger and loading it back from the same path gives a ledger
\* with the same hotel keys, the same date columns and the same value or null
\* in every cell.
C18_RoundTrip ==
    tpc = "loaded" =>
        /\ {back.rows[i].name : i \in 1..Len(back.rows)}
              = {mem.rows[i].name : i \in 1..Len(mem.rows)}
        /\ Len(back.rows) = Len(mem.rows)
        /\ DateCols(back) = DateCols(mem)
        /\ \A i \in 1..Len(mem.rows) :
              \E j \in 1..Len(back.rows) :
                  /\ back.rows[j].name = mem.rows[i].name
                  /\ \A c \in Range(mem.cols) :
                        back.rows[j].cells[c] = mem.rows[i].cells[c]

\* a ledger with a date column holding 5.87 in one row and nothing in another
C18_Witness ==
    /\ tpc = "loaded"
    /\ HasCol(mem, D1)
    /\ \E i \in 1..Len(mem.rows), j \in 1..Len(mem.rows) :
          /\ mem.rows[i].cells[D1] = Num(587)
          /\ IsNull(mem.rows[j].cells[D1])
          /\ disk.rows[i][3] = <<"5", ".", "8", "7">>
          /\ disk.rows[j][3] = <<>>
          /\ back.rows[i].cells[D1] = Num(587)
          /\ IsNull(back.rows[j].cells[D1])

\* how often label x occurs in the sequence q
Count(q, x) == Cardinality({i \in 1..Len(q) : q[i] = x})

RowNames(t) == [i \in 1..Len(t.rows) |-> t.rows[i].name]

\* the file the run loaded is one this scraper could have saved: every hotel
\* has its row, the average column is there and holds the scraper's averages
SavedByScraper(f) ==
    /\ f.exists /\ f.hotelCol
    /\ HasCol(f, AvgCol)
    /\ \A h \in HotelSet : HasRow(f, h)
    /\ SiteUpdateAverage(site, [cols |-> f.cols, rows |-> f.rows]).rows = f.rows

\* the run's date column in the file loaded is what the run writes
SameScores(p) ==
    /\ HasCol(loaded[p], args[p].date)
    /\ \A i \in 1..Len(loaded[p].rows) :
          loaded[p].rows[i].cells[args[p].date]
              = IF loaded[p].rows[i].name \in HotelSet
                THEN new_scores[p][loaded[p].rows[i].name]
                ELSE Null

\* C19: ensuring a row or a column that exists adds nothing: a saved ledger has
\* each of its column labels once, a run's date column once, one row per name
\* and, after a scraper run, one row per known hotel; a scraper run repeated
\* with the same date and the same scores saves the ledger it loaded.
C19_EnsureIdempotent ==
    \A p \in DOMAIN pc :
        WroteLedger(p) =>
            /\ \A c \in Range(file.cols) : Count(file.cols, c) = 1
            /\ Count(file.cols, args[p].date) = 1
            /\ \A i \in 1..Len(file.rows) :
                  Count(RowNames(file), file.rows[i].name) = 1
            /\ args[p].kind = "scraper" =>
                  \A h \in HotelSet : Count(RowNames(file), h) = 1
            /\ (args[p].kind = "scraper" /\ SavedByScraper(loaded[p]) /\ SameScores(p))
                  => (file.cols = loaded[p].cols /\ file.rows = loaded[p].rows)

\* a scraper run for a date the ledger has, bringing the scores it holds
C19_Witness ==
    /\ WroteLedger(1)
    /\ args[1].kind = "scraper"
    /\ SavedByScraper(loaded[1])
    /\ SameScores(1)
    /\ \E h \in HotelSet : ~IsNull(new_scores[1][h])
    /\ file.rows = loaded[1].rows

\* the known hotels that have no row in the file, in the order of the list
MissingHotels(f) == SelectSeq(Hotels, LAMBDA h : ~HasRow(f, h))

\* C20: a scraper's load without a file returns exactly the known hotels as
\* rows, no date column and an 'Average Score' column that is null in every
\* row; with a file it returns the file's rows unchanged, followed by one
\* all-null row for every known hotel the file lacks.
C20_LoadSeedsHotels ==
    \A p \in DOMAIN pc :
        (pc[p] = "loaded" /\ args[p].kind = "scraper") =>
            IF ~loaded[p].exists
            THEN /\ RowNames(df[p]) = Hotels
                 /\ df[p].cols = <<AvgCol>>
                 /\ \A i \in 1..Len(df[p].rows) : IsNull(df[p].rows[i].cells[AvgCol])
            ELSE LET old == loaded[p].rows
                     new == MissingHotels(loaded[p])
                 IN  /\ Len(df[p].rows) = Len(old) + Len(new)
                     /\ \A i \in 1..Len(old) :
                           /\ df[p].rows[i].name = old[i].name
                           /\ \A c \in Range(loaded[p].cols) :
                                 df[p].rows[i].cells[c] = old[i].cells[c]
                     /\ \A k \in 1..Len(new) :
                           /\ df[p].rows[Len(old) + k].name = new[k]
                           /\ \A c \in Range(df[p].cols) :
                                 IsNull(df[p].rows[Len(old) + k].cells[c])

\* the file lacks hotel B: the frame has its two rows and a null row for B
C20_Witness ==
    /\ pc[1] = "loaded"
    /\ loaded[1] = DupFile
    /\ Len(df[1].rows) = 3
    /\ df[1].rows[3].name = HotelB
    /\ IsNull(df[1].rows[3].cells[D0])
    /\ df[1].rows[2].cells[D0] = Num(860)

-----------------------------------------------------------------------------
(* Claims about the columns the average is computed from *)

\* four digits, dash, two digits, dash, two digits, nothing before or after
IsoDateHeader(c) ==
    /\ Len(c) = 10
    /\ \A i \in {1, 2, 3, 4, 6, 7, 9, 10} : c[i] \in Digits
    /\ c[5] = "-" /\ c[8] = "-"

\* the non-null cells of a row of the file under the YYYY-MM-DD headers
IsoCells(f, row) ==
    SelectSeq(f.cols, LAMBDA c : IsoDateHeader(c) /\ ~IsNull(row.cells[c]))

\* C21: in the file a run or an override saved, the average of every row is
\* the mean (to the hundredth) of the row's non-null cells under the headers
\* of the exact form YYYY-MM-DD, whatever 'Average Score' and the other
\* columns hold, and null when the row has no such cell.
C21_AverageFromDateColumnsOnly ==
    \A p \in DOMAIN pc :
        Done(p) =>
            \A i \in 1..Len(file.rows) :
                LET row == file.rows[i]
                    cs == IsoCells(file, row)
                IN  IF cs = <<>> THEN IsNull(row.cells[AvgCol])
                    ELSE /\ ~IsNull(row.cells[AvgCol])
                         /\ Round2(row.cells[AvgCol])
                               = Round2(Ratio(SumCells(row, cs), Len(cs)))

\* a run saved the ledger with the three other columns still holding numbers:
\* hotel A averages its two dates, hotel B has no score and a null average
C21_Witness ==
    /\ Done(1) /\ args[1].kind = "scraper" /\ args[1].date = D2
    /\ loaded[1] = NotesFile
    /\ file.rows[1].cells[D2] = Num(860)
    /\ file.rows[1].cells[AvgCol] = Num(655)
    /\ file.rows[1].cells[Note] = Num(200)
    /\ IsNull(file.rows[2].cells[D2])
    /\ file.rows[2].cells[<<" ">> \o D1] = Num(860)
    /\ IsNull(file.rows[2].cells[AvgCol])

-----------------------------------------------------------------------------
(* Claims about the numbers the extractors read *)

\* the number the page shows, in hundredths
ShownValue(sh) == sh.whole * 100 + (IF sh.frac = <<>> THEN 0 ELSE DigitVal(sh.frac[1]) * 10)

\* C22: an extractor that has read a page showing a number with a comma in
\* front of its decimals returns what it returns for the same page with a
\* period there.
C22_CommaReadAsPeriod ==
    (reader \in Extractors /\ shown.sep = ",") =>
        found = Reading(reader, [shown EXCEPT !.sep = "."])

-----------------------------------------------------------------------------
(* Claims about the ledgers of different sources *)

\* the ledger file a source owns
OwnFile(s) ==
    CASE s = "Booking" -> "booking_scores.csv"
      [] s = "Tripadvisor" -> "tripadvisor_scores.csv"
      [] s = "Google" -> "google_scores.csv"
      [] s = "Expedia" -> "expedia_scores.csv"
      [] s = "HolidayCheck" -> "holidaycheck_scores.csv"

\* the file the cycle c of source s leaves behind, up to its position, when
\* it runs with nothing else running on the file f0
Alone(s, f0, c) ==
    LET start == IF f0.exists THEN ensure_csv(f0) ELSE SeedDf
    IN  CASE c.pc \in {"idle", "check_true", "check_false", "arg_failed", "load_failed"} -> f0
          [] c.pc \in {"loaded", "fetch_failed"} ->
               IF f0.exists THEN f0 ELSE to_csv(SeedDf)
          [] c.pc = "ready" ->
               IF f0.exists \/ c.args.kind = "manual" THEN f0 ELSE to_csv(SeedDf)
          [] c.pc = "done" ->
               IF c.args.kind = "scraper"
               THEN to_csv(SiteUpdateAverage(s,
                        WriteColumn(start, c.args.date, c.new_scores)))
               ELSE to_csv(set_manual_score(f0, c.args.hotel, c.args.date,
                                            c.args.score))

-----------------------------------------------------------------------------
(* Claims about the orchestrator's main() *)

\* the positions of the entries of --sites that are not empty or all blanks
RECURSIVE NonBlankAt(_, _)
NonBlankAt(raw, i) ==
    IF i > Len(raw) THEN <<>>
    ELSE (IF \E k \in 1..Len(raw[i]) : raw[i][k] # " " THEN <<i>> ELSE <<>>)
         \o NonBlankAt(raw, i + 1)

\* C24: normalize_sites returns, in the input order, the trimmed upper-case
\* form of every entry that is not empty or all blanks, duplicates
\* included, and nothing else.
C24_NormalizeSites ==
    mpc \in {"loop", "exited"} =>
        LET at == NonBlankAt(argv.sites, 1)
        IN  /\ Len(sites) = Len(at)
            /\ \A k \in 1..Len(at) : sites[k] = UpperStr(Strip(argv.sites[at[k]]))

\* " booking " twice with an entry of blanks in between: BOOKING twice
C24_Witness ==
    /\ mpc = "loop"
    /\ Len(argv.sites) = 3
    /\ argv.sites[1] = argv.sites[3]
    /\ Len(argv.sites[1]) = Len(BOOKING) + 2
    /\ argv.sites[2] = <<" ", " ">>
    /\ sites = <<BOOKING, BOOKING>>

-----------------------------------------------------------------------------
(* Claims about the columns a run leaves alone *)

\* C25: in the file a scraper run for date D saved, every row of the file it
\* loaded is still there under its name, with every cell of the date columns
\* other than D as it was loaded.
C25_OtherDatesUntouched ==
    \A p \in DOMAIN pc :
        (ScraperDone(p) /\ lastSaver = p /\ loaded[p].exists) =>
            \A i \in 1..Len(loaded[p].rows) :
                /\ i <= Len(file.rows)
                /\ file.rows[i].name = loaded[p].rows[i].name
                /\ \A c \in Range(loaded[p].cols) :
                      (IsoDateHeader(c) /\ c # args[p].date) =>
                          /\ c \in Range(file.cols)
                          /\ file.rows[i].cells[c] = loaded[p].rows[i].cells[c]

\* a run for 2026-02-12 scored both hotels; the column of 2026-02-11 still
\* holds 4.5 for hotel A and nothing for hotel B
C25_Witness ==
    /\ ScraperDone(1) /\ args[1].date = D1
    /\ loaded[1] = OldFile
    /\ file.rows[1].cells[D1] = Num(860)
    /\ file.rows[2].cells[D1] = Num(860)
    /\ file.rows[1].cells[D0] = Num(450)
    /\ IsNull(file.rows[2].cells[D0])

-----------------------------------------------------------------------------
(* Claims about the embedded-script strategy *)

\* the rating fields the strategy is to find: written raw or with \" quotes,
\* with a number within 0..10
Occurrences(page) ==
    {i \in 1..Len(page.fields) :
        /\ page.fields[i].form \in {"ld", "raw", "esc"}
        /\ InRange(page.fields[i].score)}

\* the rank of occurrence i from the keywords that stand within 180
\* characters of it
KeywordRank(fields, i) ==
    LET near == {j \in 1..Len(fields) : Dist(fields, i, j) <= 180}
    IN  (IF \E j \in near : fields[j].best = 10 THEN 6 ELSE 0)
      - (IF \E j \in near : fields[j].best = 5 THEN 6 ELSE 0)
      + (IF \E j \in near : fields[j].review \/ fields[j].key = "reviewScore"
         THEN 4 ELSE 0)
      - (IF \E j \in near : fields[j].star THEN 6 ELSE 0)

\* C26: on a page whose rating fields are written raw or with \" quotes, the
\* embedded-script strategy returns nothing when no field holds a number
\* within 0..10, and otherwise the number of a field that no other such field
\* outranks, the rank of a field being that of the keywords within 180
\* characters of it.
C26_EmbeddedFindsBestRanked ==
    (Debugged /\ \A k \in 1..Len(payload.fields) : payload.fields[k].form # "esc2") =>
        IF Occurrences(payload) = {}
        THEN details.embedded_json_score = Null
        ELSE \E i \in Occurrences(payload) :
                /\ details.embedded_json_score = Num(payload.fields[i].score)
                /\ \A j \in Occurrences(payload) :
                      KeywordRank(payload.fields, j) <= KeywordRank(payload.fields, i)

-----------------------------------------------------------------------------
(* Claims about run_site's failures *)

EnvMissing == \E name \in run_in.required_env : name \notin run_in.environ

FailedBlind(rc) ==
    /\ result.status = "failed"
    /\ result.returncode = rc
    /\ result.has_date_column = FALSE
    /\ result.scored_hotels = 0

\* C27: run_site returns 'failed' with has_date_column false and
\* scored_hotels 0, whatever the ledger file holds, when a required
\* environment variable is unset (return code 1), when the script ran into
\* the timeout (124) and when the script exited non-zero (that exit code);
\* 'ok' and 'warning' are returned only with return code 0.
C27_FailuresSkipLedger ==
    rpc = "returned" =>
        /\ EnvMissing => FailedBlind(1)
        /\ (~EnvMissing /\ run_in.timeout) => FailedBlind(124)
        /\ (~EnvMissing /\ ~run_in.timeout /\ run_in.returncode # 0)
              => FailedBlind(run_in.returncode)
        /\ result.status \in {"ok", "warning"} =>
              /\ result.returncode = 0
              /\ ~EnvMissing /\ ~run_in.timeout /\ run_in.returncode = 0

\* the script timed out although the ledger has scores in the date's column
C27_Witness ==
    /\ rpc = "returned"
    /\ ~EnvMissing /\ run_in.timeout
    /\ target \in Range(csv.headers)
    /\ CountScored(csv.headers, csv.rows, target) > 0
    /\ result.status = "failed" /\ result.scored_hotels = 0

-----------------------------------------------------------------------------
(* Claims about the orchestrator *)

\* the entries of --sites that name a site of SITE_CONFIGS
KnownGiven ==
    SelectSeq(normalize_sites(argv.sites), LAMBDA s : s \in KnownSites)

StatusSeen(st) == \E i \in 1..Len(results) : results[i].r.status = st

\* C28: main() exits with 1 when no entry of --sites names a known site or
\* some site result is 'failed', otherwise with 2 when some result is a
\* warning and --fail-on-warning is set, otherwise with 0; no result belongs
\* to a site outside SITE_CONFIGS.
C28_ExitCode ==
    mpc = "exited" =>
        /\ exit_code = IF KnownGiven = <<>> THEN 1
                       ELSE IF StatusSeen("failed") THEN 1
                       ELSE IF StatusSeen("warning") /\ argv.fail_on_warning THEN 2
                       ELSE 0
        /\ \A i \in 1..Len(results) : results[i].site \in KnownSites

\* exit code 2 from a warning, with an unknown site among the entries
C28_Witness ==
    /\ mpc = "exited"
    /\ exit_code = 2
    /\ StatusSeen("warning")
    /\ \E k \in 1..Len(sites) : sites[k] \notin KnownSites

\* C29: at most one site script runs at any time, and it is the script of
\* the site the loop stands at; the results are those of the selected known
\* sites, one each, in the order given; main() exits only with a result for
\* every selected site, whatever the earlier results were.
C29_OneAtATimeInOrder ==
    /\ Cardinality(running) <= 1
    /\ running \subseteq {Len(results) + 1}
    /\ Len(results) <= Len(KnownGiven)
    /\ \A i \in 1..Len(results) : results[i].site = KnownGiven[i]
    /\ (mpc = "exited" /\ KnownGiven # <<>>) => Len(results) = Len(KnownGiven)

\* a site is run after a failed one and after a warning
C29_Witness ==
    /\ mpc = "exited"
    /\ Len(results) = 3
    /\ results[1].r.status = "failed"
    /\ results[2].r.status = "warning"
    /\ results[3].r.status = "ok"

-----------------------------------------------------------------------------
(* The fetch retry loops, one request at a time *)

MaxRetries == 2

FetchUrls == {<<>>, SomeUrl}
RetryLimits == (0 - 1)..MaxRetries

\* what a request of fetch_page can come to: the response passes
\* raise_for_status, or requests.get / raise_for_status raises
ExpediaOutcomes == {"ok", "error"}

\* what an attempt of fetch_booking_rating can come to: a ratingValue that
\* float() takes, a page without a ratingValue, a ratingValue that float()
\* rejects, or an exception of the request
BookingOutcomes == {"value", "nofield", "badvalue", "error"}

\* variant: the loop has one round more
RangeHas_one_more(i, retries) == i < retries + 2

\* "for attempt in range(retries + 1)"
RangeHas(i, retries) == i < retries + 1

InitFetch ==
    /\ fetcher \in {"expedia", "booking"}
    /\ furl \in FetchUrls
    /\ retry_limit \in RetryLimits
    /\ attempt_no = 0
    /\ tried = <<>>
    /\ fret = "unset"
    /\ fpc = "start"
    /\ LedgerIdle /\ ExtractIdle /\ RunIdle /\ TripIdle /\ TextIdle /\ SourcesIdle
    /\ MainIdle

\* fetch_page: "if not url: return None"; otherwise, and in
\* fetch_booking_rating, the loop is entered
EnterFetch ==
    /\ fpc = "start"
    /\ IF fetcher = "expedia" /\ furl = <<>>
       THEN fret' = "None" /\ fpc' = "returned"
       ELSE fpc' = "loop" /\ UNCHANGED fret
    /\ UNCHANGED <<fetcher, furl, retry_limit, attempt_no, tried>>
    /\ UNCHANGED <<ledgerVars, extractVars, runVars, tripVars, textVars, sourceVars, mainVars>>

\* one round of fetch_page's loop: the request, then return resp.text, or
\* sleep and go on, or after the last attempt return None
ExpediaAttempt ==
    /\ fpc = "loop"
    /\ fetcher = "expedia"
    /\ RangeHas(attempt_no, retry_limit)
    /\ \E o \in ExpediaOutcomes :
          /\ tried' = Append(tried, o)
          /\ IF o = "ok"
             THEN fret' = "text" /\ fpc' = "returned" /\ UNCHANGED attempt_no
             ELSE IF attempt_no < retry_limit
                  THEN attempt_no' = attempt_no + 1 /\ UNCHANGED <<fret, fpc>>
                  ELSE fret' = "None" /\ fpc' = "returned" /\ UNCHANGED attempt_no
    /\ UNCHANGED <<fetcher, furl, retry_limit>>
    /\ UNCHANGED <<ledgerVars, extractVars, runVars, tripVars, textVars, sourceVars, mainVars>>

\* one round of fetch_booking_rating's loop: the request and the search for
\* a ratingValue, then return float(val), or print the warning, sleep and go
\* on; session.get of an empty url raises
BookingAttempt ==
    /\ fpc = "loop"
    /\ fetcher = "booking"
    /\ RangeHas(attempt_no, retry_limit)
    /\ \E o \in BookingOutcomes :
          /\ furl = <<>> => o = "error"
          /\ tried' = Append(tried, o)
          /\ IF o = "value"
             THEN fret' = "float" /\ fpc' = "returned" /\ UNCHANGED attempt_no
             ELSE attempt_no' = attempt_no + 1 /\ UNCHANGED <<fret, fpc>>
    /\ UNCHANGED <<fetcher, furl, retry_limit>>
    /\ UNCHANGED <<ledgerVars, extractVars, runVars, tripVars, textVars, sourceVars, mainVars>>

\* the range is used up: the "return None" behind the loop
LoopEnd ==
    /\ fpc = "loop"
    /\ ~RangeHas(attempt_no, retry_limit)
    /\ fret' = "None"
    /\ fpc' = "returned"
    /\ UNCHANGED <<fetcher, furl, retry_limit, attempt_no, tried>>
    /\ UNCHANGED <<ledgerVars, extractVars, runVars, tripVars, textVars, sourceVars, mainVars>>

NextFetch == EnterFetch \/ ExpediaAttempt \/ BookingAttempt \/ LoopEnd

\* every request has a timeout and every sleep ends: a step that can be
\* taken is taken
SpecFetch == InitFetch /\ [][NextFetch]_vars /\ WF_vars(NextFetch)

-----------------------------------------------------------------------------
(* Claims about the fetch retry loops *)

Succeeded(o) == o \in {"ok", "value"}

AttemptsAllowed == IF retry_limit + 1 > 0 THEN retry_limit + 1 ELSE 0

FetchBounded ==
    /\ Len(tried) <= AttemptsAllowed
    /\ \A k \in 1..(Len(tried) - 1) : ~Succeeded(tried[k])
    /\ fpc = "returned" =>
          /\ fret \in {"None", "text", "float"}
          /\ fret # "None" <=> (tried # <<>> /\ Succeeded(tried[Len(tried)]))
          /\ (fetcher = "expedia" /\ furl = <<>>) => tried = <<>>
          /\ (fret = "None" /\ ~(fetcher = "expedia" /\ furl = <<>>))
                => Len(tried) = AttemptsAllowed

\* C30: fetch_page and fetch_booking_rating make at most retries + 1
\* requests, make none after one that succeeded, and return: the page or
\* the rating when the last request made succeeded, None when all
\* retries + 1 requests failed, and None with no request at all when
\* fetch_page is given an empty url.
C30_RetryLoopsTerminate == []FetchBounded /\ <>(fpc = "returned")

\* Booking's loop returns the rating of the third request after two that failed
C30_Witness ==
    /\ fpc = "returned"
    /\ fetcher = "booking"
    /\ tried = <<"error", "nofield", "value">>
    /\ fret = "float"

====
